---- MODULE Spec2Model ----
(***************************************************************************)
(* Model of the noobaa-sa-ci helpers:                                      *)
(*   - noobaa_sa/bucket_policy.py  (BucketPolicy, BucketPolicyBuilder)     *)
(*   - noobaa_sa/anonymous_account_manager.py (AnonymousAccountManager)    *)
(*   - tests/bucket_policies/s3_operation_access_tester.py                 *)
(*   - noobaa_sa/s3_client.py (S3Client)                                   *)
(*   - utility.utils.TimeoutSampler (the polling helper)                   *)
(*   - utility/utils.py (parse_dd_size_to_kb, generate_random_files)      *)
(*   - tests/conftest.py (the s3_client_factory fixture)                   *)
(* Python strings are TLA+ strings (Len, \o and SubSeq work on them).      *)
(* Python objects whose type the code inspects are tagged records:         *)
(*   [type |-> "str" | "int" | "list" | "dict" | "NoneType", val |-> ...]. *)
(***************************************************************************)
EXTENDS Integers, Sequences, FiniteSets, TLC

VARIABLES
    version,      \* BucketPolicy.version of the builder's policy
    statements,   \* BucketPolicy.statements of the builder's policy
    lastCall,     \* the builder method called last and its argument
    raised,       \* exception raised by the last builder call ("None" if none)
    hist,         \* history: per statement, the add_*_statement call that made it and the raw values given per property
    nCalls,       \* number of builder calls made so far
    anonCall,     \* AnonymousAccountManager: the method called last and its arguments
    anonCmds,     \* the commands the last call passed to conn.exec_cmd, in order
    anonExec,     \* what conn.exec_cmd returned to the last call (retcode, stdout)
    anonExc,      \* the exception the last call raised (NoException if none)
    anonRet,      \* the value the last call returned
    deletesInARow, \* number of delete() calls in a row that returned normally
    accCall,      \* S3OperationAccessTester: arguments of the last check_client_access_to_bucket_op
    accStrategy,  \* the strategy the factory returned to the last check
    accTrace,     \* the calls the last check made on the strategy, in order
    accResponse,  \* the Code of the response do_operation returned to the last check
    accRet,       \* the value the last check returned
    accExc,       \* the exception the last check raised (NoException if none)
    srvAccount,   \* the anonymous account the server holds (NoAccount if none)
    srvGiven,     \* history: the uid and gid the last successful create or update was given
    s3Self,       \* S3Client: the fields of the client (NoClient before construction)
    s3Ctor,       \* history: the arguments the client's constructor was called with
    s3Env,        \* os.environ of the process: the value of AWS_CA_BUNDLE
    s3Buckets,    \* the buckets the S3 service holds: bucket name -> set of object keys
    s3Call,       \* the client method called last and its arguments
    s3Cmds,       \* the commands the last call passed to exec_cmd, in order
    s3Ret,        \* the value the last call returned
    s3Exc,        \* the exception the last call raised (NoException if none)
    s3Live,       \* history: names create_bucket returned and delete_bucket has not deleted since
    s3Local,      \* the files of the local directory callers give as files_dir
    s3Pc,         \* where the client's call in progress is: "idle" between calls
    s3Deleted,    \* history: names delete_bucket deleted and create_bucket has not returned since
    pollArgs,     \* TimeoutSampler: timeout, sleep and the value waited for
    pollPc,       \* where wait_for_func_value is: "idle", "call", "sleep", "True", "False"
    pollElapsed,  \* time since the sampler started
    pollCalls,    \* number of calls of func made by the current wait
    pollLast,     \* the value func returned last
    heap,         \* the BucketPolicy objects made so far: object id -> version and statements
    bPolicy,      \* BucketPolicyBuilder objects: builder id -> the id of its self.policy
    bGiven,       \* history: builder id -> the policy its constructor was given (0 for None)
    built,        \* history: the builder and the reference of every build() made so far
    heapCall,     \* the builder or policy call made last, numbered
    utilCall,     \* utility.utils: the function called last and its arguments
    utilRet,      \* the value the last call returned
    utilExc,      \* the exception the last call raised (NoException if none)
    utilFiles,    \* the files of the directory given to the last call: name -> size in bytes
    fixPc,        \* s3_client_factory fixture: "setup", "test", "teardown", "done"
    fixAccounts,  \* the accounts the server holds
    fixCreated,   \* history: the accounts the fixture created during this test
    fixCall,      \* the arguments of the last create_s3client call
    fixRet,       \* what the last create_s3client call returned
    fixExc        \* the exception the last create_s3client call raised (NoException if none)

policyVars == <<version, statements, lastCall, raised, hist, nCalls>>
anonVars == <<anonCall, anonCmds, anonExec, anonExc, anonRet, deletesInARow>>
accVars == <<accCall, accStrategy, accTrace, accResponse, accRet, accExc>>
srvVars == <<srvAccount, srvGiven>>
s3Vars == <<s3Self, s3Ctor, s3Env, s3Buckets, s3Local, s3Pc, s3Call, s3Cmds, s3Ret, s3Exc, s3Live, s3Deleted>>
pollVars == <<pollArgs, pollPc, pollElapsed, pollCalls, pollLast>>
heapVars == <<heap, bPolicy, bGiven, built, heapCall>>
utilVars == <<utilCall, utilRet, utilExc, utilFiles>>
fixVars == <<fixPc, fixAccounts, fixCreated, fixCall, fixRet, fixExc>>

----------------------------------------------------------------------------
(* Bounds *)

MaxCalls == 4
MaxDeletesInARow == 3
MaxAmount == 1
MaxTimeout == 3
MaxSleep == 2

----------------------------------------------------------------------------
(* Python values *)

PyNone == [type |-> "NoneType", val |-> "None"]
PyStr(s) == [type |-> "str", val |-> s]
PyInt(i) == [type |-> "int", val |-> i]
PyList(l) == [type |-> "list", val |-> l]
PyDict(f) == [type |-> "dict", val |-> f]
PyBool(b) == [type |-> "bool", val |-> b]

EmptyDict == <<>>

\* d[k] = v on a dict d
PutKey(d, k, v) == [x \in (DOMAIN d) \cup {k} |-> IF x = k THEN v ELSE d[x]]

----------------------------------------------------------------------------
(* Python string methods *)

UpperCase == "ABCDEFGHIJKLMNOPQRSTUVWXYZ"
LowerCase == "abcdefghijklmnopqrstuvwxyz"

\* the lower-case letter of each upper-case letter
ToLower ==
    [c \in {SubSeq(UpperCase, i, i) : i \in 1..Len(UpperCase)} |->
        LET i == CHOOSE j \in 1..Len(UpperCase) : SubSeq(UpperCase, j, j) = c
        IN SubSeq(LowerCase, i, i)]

LowerChar(c) == IF c \in DOMAIN ToLower THEN ToLower[c] ELSE c

RECURSIVE Lower(_)
\* str.lower()
Lower(s) == IF Len(s) = 0 THEN ""
            ELSE LowerChar(SubSeq(s, 1, 1)) \o Lower(SubSeq(s, 2, Len(s)))

\* str.startswith(p)
StartsWith(s, p) == Len(s) >= Len(p) /\ SubSeq(s, 1, Len(p)) = p

\* sub in s
Contains(s, sub) ==
    \E i \in 1..(Len(s) - Len(sub) + 1) : SubSeq(s, i, i + Len(sub) - 1) = sub

----------------------------------------------------------------------------
(* noobaa_sa/bucket_policy.py *)

DEFAULT_VERSION == "2012-10-17"
ACTION_PREFIX == "s3:"
RESOURCE_PREFIX == "arn:aws:s3:::"

\* the values the builder methods are called with
PrincipalValues == {"*", "s3:*"}
ActionValues == {"*", "s3:*", "s3:s3:*"}
ResourceValues == {"*", "arn:aws:s3:::*"}

Properties == {"Principal", "NotPrincipal", "Action", "NotAction", "Resource", "NotResource"}

\* mutant of _assure_prefix: the prefix is added without looking at the value
AssurePrefix_Always(property, value) ==
    LET prefix == IF Contains(Lower(property), "action") THEN ACTION_PREFIX
                  ELSE IF Contains(Lower(property), "resource") THEN RESOURCE_PREFIX
                  ELSE ""
    IN prefix \o value

\* BucketPolicyBuilder._assure_prefix
AssurePrefix(property, value) ==
    LET prefix == IF Contains(Lower(property), "action") THEN ACTION_PREFIX
                  ELSE IF Contains(Lower(property), "resource") THEN RESOURCE_PREFIX
                  ELSE ""
    IN IF StartsWith(value, prefix) THEN value ELSE prefix \o value

\* mutant of lines 95-100: the scalar-to-list conversion puts the new value first
StoreValue_NewFirst(d, property, value) ==
    IF property \notin DOMAIN d
    THEN PutKey(d, property, PyStr(value))
    ELSE IF d[property].type = "list"
         THEN PutKey(d, property, PyList(Append(d[property].val, PyStr(value))))
         ELSE PutKey(d, property, PyList(<<PyStr(value), d[property]>>))

\* lines 95-100: store value under property in dict d, scalar first, then a list
StoreValue(d, property, value) ==
    IF property \notin DOMAIN d
    THEN PutKey(d, property, PyStr(value))
    ELSE IF d[property].type = "list"
         THEN PutKey(d, property, PyList(Append(d[property].val, PyStr(value))))
         ELSE PutKey(d, property, PyList(<<d[property], PyStr(value)>>))

\* mutant of lines 90-94: Principal / NotPrincipal are stored on the statement
\* itself, like the other properties
UpdatePropertyOnLastStatement_Flat(stmts, property, value0) ==
    LET value == AssurePrefix(property, value0)
        n == Len(stmts)
        last == stmts[n]
    IN [stmts EXCEPT ![n] = StoreValue(last, property, value)]

\* mutant of _update_property_on_last_statement: statements[0] instead of statements[-1]
UpdatePropertyOnFirstStatement(stmts, property, value0) ==
    LET value == AssurePrefix(property, value0)
        first == stmts[1]
    IN IF Contains(Lower(property), "principal")
       THEN LET d == IF property \in DOMAIN first THEN first[property] ELSE PyDict(EmptyDict)
            IN [stmts EXCEPT ![1] = PutKey(first, property, PyDict(StoreValue(d.val, "AWS", value)))]
       ELSE [stmts EXCEPT ![1] = StoreValue(first, property, value)]

\* BucketPolicyBuilder._update_property_on_last_statement, after the emptiness check
UpdatePropertyOnLastStatement(stmts, property, value0) ==
    LET value == AssurePrefix(property, value0)
        n == Len(stmts)
        last == stmts[n]
    IN IF Contains(Lower(property), "principal")
       THEN LET d == IF property \in DOMAIN last THEN last[property] ELSE PyDict(EmptyDict)
            IN [stmts EXCEPT ![n] = PutKey(last, property, PyDict(StoreValue(d.val, "AWS", value)))]
       ELSE [stmts EXCEPT ![n] = StoreValue(last, property, value)]

NoValues == [p \in Properties |-> <<>>]

\* mutant of add_*_statement: insert(0, ...) instead of append(...)
AddStatement_Prepend(op, effect) ==
    /\ nCalls < MaxCalls
    /\ statements' = <<[Effect |-> PyStr(effect)]>> \o statements
    /\ hist' = Append(hist, [op |-> op, vals |-> NoValues])
    /\ lastCall' = [op |-> op, property |-> "Effect", value |-> effect]
    /\ raised' = "None"
    /\ nCalls' = nCalls + 1
    /\ UNCHANGED <<version, anonVars, accVars, srvVars, s3Vars, pollVars, heapVars, utilVars, fixVars>>

\* add_allow_statement / add_deny_statement: append {"Effect": effect}
AddStatement(op, effect) ==
    /\ nCalls < MaxCalls
    /\ statements' = Append(statements, [Effect |-> PyStr(effect)])
    /\ hist' = Append(hist, [op |-> op, vals |-> NoValues])
    /\ lastCall' = [op |-> op, property |-> "Effect", value |-> effect]
    /\ raised' = "None"
    /\ nCalls' = nCalls + 1
    /\ UNCHANGED <<version, anonVars, accVars, srvVars, s3Vars, pollVars, heapVars, utilVars, fixVars>>

\* mutant of _update_property_on_last_statement: a missing statement is created
\* instead of raising ValueError
AddProperty_CreatesStatement(op, property, value) ==
    /\ nCalls < MaxCalls
    /\ lastCall' = [op |-> op, property |-> property, value |-> value]
    /\ nCalls' = nCalls + 1
    /\ raised' = "None"
    /\ IF statements = <<>>
       THEN /\ statements' = UpdatePropertyOnLastStatement(
                                <<[Effect |-> PyStr("Allow")]>>, property, value)
            /\ hist' = <<[op |-> "add_allow_statement",
                          vals |-> [NoValues EXCEPT ![property] = <<value>>]]>>
       ELSE /\ statements' = UpdatePropertyOnLastStatement(statements, property, value)
            /\ hist' = [hist EXCEPT ![Len(hist)].vals[property] = Append(@, value)]
    /\ UNCHANGED <<version, anonVars, accVars, srvVars, s3Vars, pollVars, heapVars, utilVars, fixVars>>

\* add_principal .. add_not_resource: _update_property_on_last_statement(property, value)
AddProperty(op, property, value) ==
    /\ nCalls < MaxCalls
    /\ lastCall' = [op |-> op, property |-> property, value |-> value]
    /\ nCalls' = nCalls + 1
    /\ IF statements = <<>>
       THEN /\ raised' = "ValueError"
            /\ UNCHANGED <<version, statements, hist>>
       ELSE /\ statements' = UpdatePropertyOnLastStatement(statements, property, value)
            /\ hist' = [hist EXCEPT ![Len(hist)].vals[property] = Append(@, value)]
            /\ raised' = "None"
            /\ UNCHANGED version
    /\ UNCHANGED <<anonVars, accVars, srvVars, s3Vars, pollVars, heapVars, utilVars, fixVars>>

add_allow_statement == AddStatement("add_allow_statement", "Allow")
add_deny_statement == AddStatement("add_deny_statement", "Deny")
add_principal(principal) == AddProperty("add_principal", "Principal", principal)
add_not_principal(not_principal) == AddProperty("add_not_principal", "NotPrincipal", not_principal)
add_action(action) == AddProperty("add_action", "Action", action)
add_not_action(not_action) == AddProperty("add_not_action", "NotAction", not_action)
add_resource(resource) == AddProperty("add_resource", "Resource", resource)
add_not_resource(not_resource) == AddProperty("add_not_resource", "NotResource", not_resource)

----------------------------------------------------------------------------
(* noobaa_sa/anonymous_account_manager.py *)

\* noobaa_sa.defaults.MANAGE_NSFS, the management CLI of the server
MANAGE_NSFS == "noobaa-cli"
NB_CLI_PATH == MANAGE_NSFS

\* bool(x)
Truthy(x) == CASE x.type = "NoneType" -> FALSE
               [] x.type = "int" -> x.val # 0
               [] x.type = "str" -> x.val # ""
               [] OTHER -> TRUE

DecimalDigits == "0123456789"

RECURSIVE NatToStr(_)
NatToStr(n) == IF n < 10 THEN SubSeq(DecimalDigits, n + 1, n + 1)
               ELSE NatToStr(n \div 10) \o SubSeq(DecimalDigits, (n % 10) + 1, (n % 10) + 1)

IsDigit(c) == \E k \in 1..10 : SubSeq(DecimalDigits, k, k) = c
DigitValue(c) == (CHOOSE k \in 1..10 : SubSeq(DecimalDigits, k, k) = c) - 1
IsDigits(s) == s # "" /\ \A i \in 1..Len(s) : IsDigit(SubSeq(s, i, i))

\* the number a string of decimal digits denotes
RECURSIVE StrToNat(_)
StrToNat(s) ==
    IF Len(s) = 0 THEN 0
    ELSE StrToNat(SubSeq(s, 1, Len(s) - 1)) * 10 + DigitValue(SubSeq(s, Len(s), Len(s)))

\* index of the first c in s at or after i; s holds a c at or after i
RECURSIVE Find(_, _, _)
Find(s, c, i) == IF SubSeq(s, i, i) = c THEN i
                 ELSE IF SubSeq(s, i + 1, i + 1) = c THEN i + 1
                 ELSE IF SubSeq(s, i + 2, i + 2) = c THEN i + 2
                 ELSE IF SubSeq(s, i + 3, i + 3) = c THEN i + 3
                 ELSE Find(s, c, i + 4)

\* str.endswith(p)
HasSuffix(s, p) == Len(s) >= Len(p) /\ SubSeq(s, Len(s) - Len(p) + 1, Len(s)) = p

\* s is what stands between p and q in text
Wrapped(text, p, q) == Len(text) >= Len(p) + Len(q) /\ StartsWith(text, p) /\ HasSuffix(text, q)
Between(text, p, q) == SubSeq(text, Len(p) + 1, Len(text) - Len(q))

\* f"{x}"
Format(x) == CASE x.type = "NoneType" -> "None"
               [] x.type = "int" -> IF x.val < 0 THEN "-" \o NatToStr(0 - x.val) ELSE NatToStr(x.val)
               [] x.type = "str" -> x.val

\* what the remote CLI prints
OutEmpty == ""
OutNoSuchAccount == "{\"error\": {\"code\": \"NoSuchAccount\"}}"
OutNoSuchAccountText == "NoSuchAccount: Account does not exist"
OutAlreadyExists == "{\"error\": {\"code\": \"AccountNameAlreadyExists\"}}"
OutInternalError == "{\"error\": {\"code\": \"InternalError\"}}"
OutStatus == "{\"response\": {\"code\": \"AccountStatus\", \"reply\": {\"nsfs_account_config\": {\"uid\": 0, \"gid\": 0}}}}"
OutStatusUpdated == "{\"response\": {\"code\": \"AccountStatus\", \"reply\": {\"nsfs_account_config\": {\"uid\": 1234, \"gid\": 5678}}}}"
OutNoReply == "{\"response\": {\"code\": \"AccountStatus\"}}"

\* the status document of an account with the given uid and gid
StatusText(uid, gid) ==
    "{\"response\": {\"code\": \"AccountStatus\", \"reply\": {\"nsfs_account_config\": {\"uid\": "
        \o NatToStr(uid) \o ", \"gid\": " \o NatToStr(gid) \o "}}}}"

Stdouts == {OutEmpty, OutNoSuchAccount, OutNoSuchAccountText, OutAlreadyExists,
            OutInternalError, OutStatus, OutStatusUpdated, OutNoReply}
Retcodes == {0, 1}

\* what conn.exec_cmd can return: (retcode, stdout, stderr)
ExecResults == [retcode : Retcodes, stdout : Stdouts]

Key(k, v) == k :> v

\* the JSON texts of a name and of a natural number
IsJsonName(t) == t # "" /\ \A i \in 1..Len(t) : SubSeq(t, i, i) \notin {"\"", "\\"}
IsJsonNat(t) == IsDigits(t) /\ (Len(t) = 1 \/ SubSeq(t, 1, 1) # "0")

ErrorOpen == "{\"error\": {\"code\": \""
ResponseOpen == "{\"response\": {\"code\": \""
CodeClose == "\"}}"
StatusOpen == "{\"response\": {\"code\": \"AccountStatus\", \"reply\": {\"nsfs_account_config\": {\"uid\": "
StatusComma == ", \"gid\": "
StatusClose == "}}}}"

\* the uid and gid texts of a status document's body
StatusBody(body) ==
    LET j == Find(body \o ",", ",", 1)
    IN [ok |-> /\ Wrapped(body, SubSeq(body, 1, j - 1) \o StatusComma, "")
               /\ IsJsonNat(SubSeq(body, 1, j - 1))
               /\ IsJsonNat(SubSeq(body, j + Len(StatusComma), Len(body))),
        uid |-> SubSeq(body, 1, j - 1),
        gid |-> SubSeq(body, j + Len(StatusComma), Len(body))]

JsonValue(val) == [ok |-> TRUE, val |-> val, msg |-> ""]

\* json.loads on what the CLI prints: the parsed object of an error document, a
\* response document or a status document; any other text here begins no JSON
\* value (the empty text, a plain message), which is a JSONDecodeError at char 0
JsonLoads(text) ==
    IF Wrapped(text, ErrorOpen, CodeClose) /\ IsJsonName(Between(text, ErrorOpen, CodeClose))
    THEN JsonValue(PyDict(Key("error", PyDict(
             Key("code", PyStr(Between(text, ErrorOpen, CodeClose)))))))
    ELSE IF Wrapped(text, ResponseOpen, CodeClose)
            /\ IsJsonName(Between(text, ResponseOpen, CodeClose))
    THEN JsonValue(PyDict(Key("response", PyDict(
             Key("code", PyStr(Between(text, ResponseOpen, CodeClose)))))))
    ELSE IF Wrapped(text, StatusOpen, StatusClose)
            /\ StatusBody(Between(text, StatusOpen, StatusClose)).ok
    THEN LET body == StatusBody(Between(text, StatusOpen, StatusClose))
         IN JsonValue(PyDict(Key("response", PyDict(
                Key("code", PyStr("AccountStatus")) @@
                Key("reply", PyDict(Key("nsfs_account_config", PyDict(
                    Key("uid", PyInt(StrToNat(body.uid))) @@
                    Key("gid", PyInt(StrToNat(body.gid)))))))))))
    ELSE [ok |-> FALSE, val |-> PyNone, msg |-> "Expecting value: line 1 column 1 (char 0)"]

NoSampler == [timeout |-> 0, sleep |-> 0, value |-> PyNone]
NoClient == [type |-> "NoClient", val |-> <<>>]

NoException == [type |-> "None", msg |-> ""]
NoExec == [retcode |-> 0 - 1, stdout |-> "<exec_cmd not called>"]

Exception(type, msg) == [type |-> type, msg |-> msg]

\* mutant of create, lines 40-47: the truthiness test update() uses
CreateCommand_Truthy(uid, gid, user) ==
    LET cmd == "sudo " \o NB_CLI_PATH \o " account add --anonymous "
    IN IF Truthy(uid) /\ Truthy(gid)
       THEN [ok |-> TRUE, cmd |-> cmd \o "--uid " \o Format(uid) \o " --gid " \o Format(gid)]
       ELSE IF Truthy(user)
            THEN [ok |-> TRUE, cmd |-> cmd \o "--user " \o Format(user)]
            ELSE [ok |-> FALSE, cmd |-> cmd]

\* create, lines 39-47: the command, or no command when the arguments are missing
CreateCommand(uid, gid, user) ==
    LET cmd == "sudo " \o NB_CLI_PATH \o " account add --anonymous "
    IN IF uid # PyNone /\ gid # PyNone
       THEN [ok |-> TRUE, cmd |-> cmd \o "--uid " \o Format(uid) \o " --gid " \o Format(gid)]
       ELSE IF Truthy(user)
            THEN [ok |-> TRUE, cmd |-> cmd \o "--user " \o Format(user)]
            ELSE [ok |-> FALSE, cmd |-> cmd]

\* mutant of create, lines 50-53: the message is built without the command's output
CreateOutcome_NoStdout(res) ==
    IF res.retcode # 0
    THEN Exception("AccountCreationFailed", "Creation of anonymous account failed with error ")
    ELSE NoException

\* create, lines 50-53: the exception raised for what exec_cmd returned
CreateOutcome(res) ==
    IF res.retcode # 0
    THEN Exception("AccountCreationFailed",
                   "Creation of anonymous account failed with error " \o res.stdout)
    ELSE NoException

\* AnonymousAccountManager.create
create(uid, gid, user, res) ==
    LET c == CreateCommand(uid, gid, user)
    IN /\ anonCall' = [op |-> "create", uid |-> uid, gid |-> gid, user |-> user]
       /\ anonRet' = PyNone
       /\ deletesInARow' = 0
       /\ IF ~c.ok
          THEN /\ anonExc' = Exception("AccountCreationFailed",
                    "Please provide either a valid uid and gid pair, or a valid user name")
               /\ anonCmds' = <<>>
               /\ anonExec' = NoExec
          ELSE /\ anonCmds' = <<c.cmd>>
               /\ anonExec' = res
               /\ anonExc' = CreateOutcome(res)
       /\ UNCHANGED <<policyVars, accVars, s3Vars, pollVars, heapVars, utilVars, fixVars>>

\* mutant of delete, lines 67-72: a missing account is an error like any other
DeleteOutcome_Strict(res) ==
    IF res.retcode # 0
    THEN Exception("AccountDeletionFailed",
                   "Deletion of the anonymous account failed with error " \o res.stdout)
    ELSE NoException

\* delete, lines 67-72
DeleteOutcome(res) ==
    IF res.retcode # 0 /\ Contains(res.stdout, "NoSuchAccount")
    THEN NoException
    ELSE IF res.retcode # 0
         THEN Exception("AccountDeletionFailed",
                        "Deletion of the anonymous account failed with error " \o res.stdout)
         ELSE NoException

\* AnonymousAccountManager.delete
delete(res) ==
    /\ deletesInARow < MaxDeletesInARow
    /\ anonCall' = [op |-> "delete", uid |-> PyNone, gid |-> PyNone, user |-> PyNone]
    /\ anonCmds' = <<"sudo " \o NB_CLI_PATH \o " account delete --anonymous">>
    /\ anonExec' = res
    /\ anonExc' = DeleteOutcome(res)
    /\ anonRet' = PyNone
    /\ deletesInARow' = IF DeleteOutcome(res) = NoException THEN deletesInARow + 1 ELSE 0
    /\ UNCHANGED <<policyVars, accVars, s3Vars, pollVars, heapVars, utilVars, fixVars>>

\* update, lines 83-92: the command; missing arguments are logged, not raised
UpdateCommand(uid, gid, user) ==
    LET cmd == "sudo " \o NB_CLI_PATH \o " account update --anonymous "
    IN IF Truthy(uid) /\ Truthy(gid)
       THEN cmd \o "--uid " \o Format(uid) \o " --gid " \o Format(gid)
       ELSE IF Truthy(user)
            THEN cmd \o "--user " \o Format(user)
            ELSE cmd

\* AnonymousAccountManager.update: a failure of the command is logged, not raised
update(uid, gid, user, res) ==
    /\ anonCall' = [op |-> "update", uid |-> uid, gid |-> gid, user |-> user]
    /\ anonCmds' = <<UpdateCommand(uid, gid, user)>>
    /\ anonExec' = res
    /\ anonExc' = NoException
    /\ anonRet' = PyNone
    /\ deletesInARow' = 0
    /\ UNCHANGED <<policyVars, accVars, s3Vars, pollVars, heapVars, utilVars, fixVars>>

\* mutant of status, line 118: the response is returned instead of its reply
StatusOutcome_Response(res) ==
    IF res.retcode # 0 /\ Contains(res.stdout, "NoSuchAccount")
    THEN [exc |-> NoException, ret |-> PyNone]
    ELSE LET response_dict == JsonLoads(res.stdout)
         IN IF ~response_dict.ok
            THEN [exc |-> Exception("JSONDecodeError", response_dict.msg), ret |-> PyNone]
            ELSE IF "response" \notin DOMAIN response_dict.val.val
                 THEN [exc |-> Exception("KeyError", "response"), ret |-> PyNone]
                 ELSE [exc |-> NoException, ret |-> response_dict.val.val["response"]]

\* status, lines 110-118: the value returned or the exception raised
StatusOutcome(res) ==
    IF res.retcode # 0 /\ Contains(res.stdout, "NoSuchAccount")
    THEN [exc |-> NoException, ret |-> PyNone]
    ELSE LET response_dict == JsonLoads(res.stdout)
         IN IF ~response_dict.ok
            THEN [exc |-> Exception("JSONDecodeError", response_dict.msg), ret |-> PyNone]
            ELSE IF "response" \notin DOMAIN response_dict.val.val
                 THEN [exc |-> Exception("KeyError", "response"), ret |-> PyNone]
                 ELSE IF "reply" \notin DOMAIN response_dict.val.val["response"].val
                      THEN [exc |-> Exception("KeyError", "reply"), ret |-> PyNone]
                      ELSE [exc |-> NoException,
                            ret |-> response_dict.val.val["response"].val["reply"]]

\* AnonymousAccountManager.status
status(res) ==
    /\ anonCall' = [op |-> "status", uid |-> PyNone, gid |-> PyNone, user |-> PyNone]
    /\ anonCmds' = <<"sudo " \o NB_CLI_PATH \o " account status --anonymous">>
    /\ anonExec' = res
    /\ anonExc' = StatusOutcome(res).exc
    /\ anonRet' = StatusOutcome(res).ret
    /\ deletesInARow' = 0
    /\ UNCHANGED <<policyVars, accVars, s3Vars, pollVars, heapVars, utilVars, fixVars>>

\* the arguments the manager's methods are called with: none, 0, the ids the test
\* updates to (line 59) and ids it can draw from 1000..2000 (line 37)
Uids == {PyNone, PyInt(0), PyInt(1234), PyInt(1137)}
Gids == {PyNone, PyInt(0), PyInt(5678), PyInt(1582)}
Users == {PyNone, PyStr(""), PyStr("root")}

----------------------------------------------------------------------------
(* The management CLI the manager's commands run on, as the manager's test
   (tests/test_anonymous_access.py, test_anonymous_account_management) shows it:
   it holds at most one anonymous account, refuses a second one, reports the
   account's uid and gid, and answers NoSuchAccount when there is none. *)

NoAccount == [type |-> "NoAccount", val |-> <<>>]
Account(uid, gid) == [type |-> "Account", val |-> <<uid, gid>>]

OutCreated == "{\"response\": {\"code\": \"AccountCreated\"}}"
OutUpdated == "{\"response\": {\"code\": \"AccountUpdated\"}}"
OutDeleted == "{\"response\": {\"code\": \"AccountDeleted\"}}"
OutMissingUpdateProperty == "{\"error\": {\"code\": \"MissingUpdateProperty\"}}"
OutInvalidArgument == "{\"error\": {\"code\": \"InvalidArgument\"}}"

\* the uid and gid of a user of the server's operating system
UserIds(name) == IF name = "root" THEN <<0, 0>> ELSE <<1234, 5678>>
UserNames == {"root"}

\* the uid and gid texts of '--uid U --gid G'
IdOptions(rest) ==
    LET after == SubSeq(rest, Len("--uid ") + 1, Len(rest))
        j == Find(after \o " ", " ", 1)
    IN [ok |-> /\ StartsWith(rest, "--uid ")
               /\ StartsWith(SubSeq(after, j, Len(after)), " --gid ")
               /\ IsDigits(SubSeq(after, 1, j - 1))
               /\ IsDigits(SubSeq(after, j + Len(" --gid "), Len(after))),
        uid |-> SubSeq(after, 1, j - 1),
        gid |-> SubSeq(after, j + Len(" --gid "), Len(after))]

\* the identity a command line names after its head: --uid U --gid G, --user NAME,
\* nothing, or something the CLI does not understand
IdentityArgs(cmd, head) ==
    LET rest == SubSeq(cmd, Len(head) + 1, Len(cmd))
    IN IF StartsWith(cmd, head) /\ IdOptions(rest).ok
       THEN [kind |-> "ids",
             ids |-> <<StrToNat(IdOptions(rest).uid), StrToNat(IdOptions(rest).gid)>>]
       ELSE IF \E name \in UserNames : cmd = head \o "--user " \o name
            THEN [kind |-> "ids",
                  ids |-> UserIds(CHOOSE name \in UserNames : cmd = head \o "--user " \o name)]
            ELSE IF cmd = head
                 THEN [kind |-> "none", ids |-> <<0, 0>>]
                 ELSE [kind |-> "invalid", ids |-> <<0, 0>>]

ServerReply(retcode, stdout, account) ==
    [res |-> [retcode |-> retcode, stdout |-> stdout], account |-> account]

\* 'account add --anonymous ...'
ServerAdd(cmd, account) ==
    LET args == IdentityArgs(cmd, "sudo " \o MANAGE_NSFS \o " account add --anonymous ")
    IN IF args.kind # "ids"
       THEN {ServerReply(1, OutInvalidArgument, account)}
       ELSE IF account # NoAccount
            THEN {ServerReply(1, OutAlreadyExists, account)}
            ELSE {ServerReply(0, OutCreated, Account(args.ids[1], args.ids[2]))}

\* 'account update --anonymous ...'; the test does not show how an update that
\* names no identity is answered: refused, or accepted with nothing to change
ServerUpdate(cmd, account) ==
    LET args == IdentityArgs(cmd, "sudo " \o MANAGE_NSFS \o " account update --anonymous ")
    IN IF args.kind = "invalid"
       THEN {ServerReply(1, OutInvalidArgument, account)}
       ELSE IF account = NoAccount
            THEN {ServerReply(1, OutNoSuchAccount, account)}
            ELSE IF args.kind = "none"
                 THEN {ServerReply(1, OutMissingUpdateProperty, account),
                       ServerReply(0, OutUpdated, account)}
                 ELSE {ServerReply(0, OutUpdated, Account(args.ids[1], args.ids[2]))}

\* 'account delete --anonymous'
ServerDelete(account) ==
    IF account = NoAccount
    THEN {ServerReply(1, OutNoSuchAccount, account)}
    ELSE {ServerReply(0, OutDeleted, NoAccount)}

\* 'account status --anonymous'
ServerStatus(account) ==
    IF account = NoAccount
    THEN {ServerReply(1, OutNoSuchAccount, account)}
    ELSE {ServerReply(0, StatusText(account.val[1], account.val[2]), account)}

\* the last successful create or update was given no uid and gid (a user name)
UnknownIds == [type |-> "UnknownIds", val |-> <<>>]

\* AnonymousAccountManager.create with conn.exec_cmd run by the server
create_on_server(uid, gid, user) ==
    LET c == CreateCommand(uid, gid, user)
    IN \E out \in (IF c.ok THEN ServerAdd(c.cmd, srvAccount)
                    ELSE {ServerReply(NoExec.retcode, NoExec.stdout, srvAccount)}) :
          /\ create(uid, gid, user, out.res)
          /\ srvAccount' = out.account
          /\ srvGiven' = IF anonExc' # NoException
                         THEN srvGiven
                         ELSE IF uid # PyNone /\ gid # PyNone
                              THEN Account(uid.val, gid.val)
                              ELSE UnknownIds

\* AnonymousAccountManager.delete with conn.exec_cmd run by the server
delete_on_server ==
    \E out \in ServerDelete(srvAccount) :
       /\ delete(out.res)
       /\ srvAccount' = out.account
       /\ srvGiven' = IF anonExc' = NoException THEN NoAccount ELSE srvGiven

\* AnonymousAccountManager.update with conn.exec_cmd run by the server
update_on_server(uid, gid, user) ==
    \E out \in ServerUpdate(UpdateCommand(uid, gid, user), srvAccount) :
       /\ update(uid, gid, user, out.res)
       /\ srvAccount' = out.account
       /\ srvGiven' = IF anonExc' # NoException \/ out.res.retcode # 0
                      THEN srvGiven
                      ELSE IF uid # PyNone /\ gid # PyNone
                           THEN Account(uid.val, gid.val)
                           ELSE UnknownIds

\* AnonymousAccountManager.status with conn.exec_cmd run by the server
status_on_server ==
    \E out \in ServerStatus(srvAccount) :
       /\ status(out.res)
       /\ UNCHANGED srvVars

----------------------------------------------------------------------------
(* tests/bucket_policies/s3_operation_access_tester.py *)

\* the clients, buckets and operation names the tester is called with
Clients == {"admin_client", "s3_client"}
Buckets == {"bucket-a", "bucket-b"}
Operations == {"GetObject", "PutObject", "DeleteObject", "Unsupported"}
SetupKwargs == {"{}", "{'obj_key': 'obj_0'}"}

\* the Code of the response a strategy's do_operation can return
ResponseCodes == {PyInt(200), PyInt(204), PyStr("AccessDenied"), PyStr("NoSuchKey"),
                  PyStr("InternalError")}

NoStrategy == [operation |-> "None", expected_success_code |-> PyNone, setup |-> "None"]
NoResponse == [type |-> "NoResponse", val |-> ""]

\* access_validation_strategies.AccessValidationStrategyFactory.create_strategy:
\* the strategy of an operation, NoStrategy for an operation it does not support
\* (NotImplementedError). A strategy either inherits AccessValidationStrategy.setup
\* or overrides it with one that takes the kwargs dict.
SupportedOperations == {"GetObject", "PutObject", "DeleteObject"}
ExpectedSuccessCode(operation) == IF operation = "DeleteObject" THEN PyInt(204) ELSE PyInt(200)
SetupKinds == {"inherited", "overridden"}
CreateStrategy(operation, setupKind) ==
    IF operation \in SupportedOperations
    THEN [operation |-> operation,
          expected_success_code |-> ExpectedSuccessCode(operation),
          setup |-> setupKind]
    ELSE NoStrategy

\* mutant of lines 44-49: an unexpected code counts as a denial
Classify_DeniedByDefault(code, expected_success_code) ==
    IF code = expected_success_code
    THEN [ret |-> PyBool(TRUE), exc |-> NoException]
    ELSE [ret |-> PyBool(FALSE), exc |-> NoException]

\* lines 44-49: the outcome for the response's Code
Classify(code, expected_success_code) ==
    IF code = expected_success_code
    THEN [ret |-> PyBool(TRUE), exc |-> NoException]
    ELSE IF code = PyStr("AccessDenied")
         THEN [ret |-> PyBool(FALSE), exc |-> NoException]
         ELSE [ret |-> PyNone,
               exc |-> Exception("Exception", "Unexpected response code: " \o Format(code))]

\* line 42 on a strategy that inherits setup(self, **setup_kwargs), lines 68-73: the
\* TypeError of the call; its text names the function up to Python 3.9 and the
\* qualified function from Python 3.10 on
SetupTypeErrors ==
    {Exception("TypeError", "setup() takes 1 positional argument but 2 were given"),
     Exception("TypeError",
               "AccessValidationStrategy.setup() takes 1 positional argument but 2 were given")}

\* S3OperationAccessTester.check_client_access_to_bucket_op
check_client_access_to_bucket_op(s3_client, bucket, operation, setup_kwargs, setupKind, code) ==
    LET test_strategy == CreateStrategy(operation, setupKind)
        createEv == [call |-> "create_strategy", arg |-> operation, bucket |-> ""]
        setupEv == [call |-> "setup", arg |-> setup_kwargs, bucket |-> ""]
        opEv == [call |-> "do_operation", arg |-> s3_client, bucket |-> bucket]
    IN /\ accCall' = [s3_client |-> s3_client, bucket |-> bucket,
                      operation |-> operation, setup_kwargs |-> setup_kwargs]
       /\ accStrategy' = test_strategy
       /\ IF test_strategy = NoStrategy
          THEN \* line 41 raises
               /\ accTrace' = <<createEv>>
               /\ accResponse' = NoResponse
               /\ accRet' = PyNone
               /\ accExc' = Exception("NotImplementedError", operation)
          ELSE IF test_strategy.setup = "inherited"
          THEN \* line 42: setup(self, **setup_kwargs) called with a positional argument
               /\ accTrace' = <<createEv, setupEv>>
               /\ accResponse' = NoResponse
               /\ accRet' = PyNone
               /\ accExc' \in SetupTypeErrors
          ELSE /\ accTrace' = <<createEv, setupEv, opEv>>
               /\ accResponse' = code
               /\ accRet' = Classify(code, test_strategy.expected_success_code).ret
               /\ accExc' = Classify(code, test_strategy.expected_success_code).exc
       /\ UNCHANGED <<policyVars, anonVars, srvVars, s3Vars, pollVars, heapVars, utilVars, fixVars>>

----------------------------------------------------------------------------
(* noobaa_sa/s3_client.py *)

\* S3Client.static_tls_crt_path, line 25
static_tls_crt_path == ""

\* the arguments clients are constructed with
Endpoints == {"https://nsfs:6443"}
Credentials == {<<PyNone, PyNone>>, <<PyStr("a1b2"), PyStr("c3d4")>>}

S3ClientObject(endpoint, access_key, secret_key, verify_tls) ==
    [type |-> "S3Client",
     val |-> [endpoint |-> endpoint, _access_key |-> access_key,
              _secret_key |-> secret_key, verify_tls |-> verify_tls]]

\* the read-only properties, lines 45-51
access_key(self) == self.val._access_key
secret_key(self) == self.val._secret_key

\* generate_unique_resource_name(prefix="bucket"), and the names callers give
RandomNames == {"bucket-1a2b3c4d", "bucket-5e6f7a8b"}
GivenNames == {"", "bucket-1a2b3c4d"}
BucketNames == RandomNames \cup (GivenNames \ {""})
Prefixes == {"", "dir", "dir/"}
CliCmds == {"ls", "list-buckets"}

\* the names tempfile.TemporaryDirectory() draws, the directories callers give
\* as files_dir ("" for none), the object sizes, keys and paths they give
TmpDirs == {"/tmp/tmp0a1b2c3d"}
FilesDirs == {"", "/data"}

\* a local directory sync is given as its source, and the files it holds
ReportsDir == "/srv/reports"
ReportFiles == {"report.txt"}

\* the files of a local directory: local are the files of the directory callers
\* give as files_dir
Listing(dir, local) ==
    IF dir \in FilesDirs \ {""} THEN local
    ELSE IF dir = ReportsDir THEN ReportFiles
    ELSE {}

\* what generate_unique_resource_name can return to create_bucket, which calls
\* it when no name is given ("" where it is not called): lines 47-60 draw the
\* name and check it against nothing, so it can be the name of a bucket
GeneratedNames(bucket_name) ==
    IF bucket_name = "" THEN RandomNames ELSE {""}

\* the keys clients other than this one put into the buckets
OtherKeys == {"report.txt"}

\* where a call of the client is: between calls, in the loop or at the sync of
\* write_random_objs_to_bucket with local directory dir, or before line 121 of
\* delete_bucket
Idle == [at |-> "idle", dir |-> ""]
At(at, dir) == [at |-> at, dir |-> dir]
ObjSizes == {"1M"}
ObjectKeys == {"obj_0"}
S3Paths == {"", "obj_0"}

S3CallArgs(op, bucket_name, flag, amount, prefix, key, obj_size, files_dir) ==
    [op |-> op, bucket_name |-> bucket_name, flag |-> flag, amount |-> amount,
     prefix |-> prefix, key |-> key, obj_size |-> obj_size, files_dir |-> files_dir]
S3Call(op, bucket_name, flag, amount, prefix) ==
    S3CallArgs(op, bucket_name, flag, amount, prefix, "", "", "")

\* the elements of a sequence
Range(seq) == {seq[i] : i \in 1..Len(seq)}

\* mutant of exec_s3_cli_cmd, lines 68-69: the two credentials change places
BaseCommand_SwappedKeys(self, api) ==
    LET base_command ==
            "AWS_ACCESS_KEY_ID=" \o Format(secret_key(self)) \o " "
            \o "AWS_SECRET_ACCESS_KEY=" \o Format(access_key(self)) \o " "
            \o "AWS_DEFAULT_REGION=us-east-1 "
            \o "aws s3" \o (IF api THEN "api" ELSE "") \o " "
            \o "--endpoint=" \o self.val.endpoint \o " "
    IN IF self.val.verify_tls
       THEN "AWS_CA_BUNDLE=" \o static_tls_crt_path \o " " \o base_command
       ELSE base_command \o " --no-verify-ssl"

\* exec_s3_cli_cmd, lines 66-80: base_command
BaseCommand(self, api) ==
    LET base_command ==
            "AWS_ACCESS_KEY_ID=" \o Format(access_key(self)) \o " "
            \o "AWS_SECRET_ACCESS_KEY=" \o Format(secret_key(self)) \o " "
            \o "AWS_DEFAULT_REGION=us-east-1 "
            \o "aws s3" \o (IF api THEN "api" ELSE "") \o " "
            \o "--endpoint=" \o self.val.endpoint \o " "
    IN IF self.val.verify_tls
       THEN "AWS_CA_BUNDLE=" \o static_tls_crt_path \o " " \o base_command
       ELSE base_command \o " --no-verify-ssl"

\* exec_s3_cli_cmd, line 82: the command line handed to exec_cmd
CraftedCommand(self, cmd, api) == "bash -c '" \o BaseCommand(self, api) \o cmd \o "'"

\* f"{b}" of a bytes object of printable ASCII without quotes and backslashes
FormatBytes(b) == "b'" \o b \o "'"

\* exec_s3_cli_cmd, lines 84-86; output.stderr is a bytes object
ExecS3CliOutcome(stderr) ==
    IF stderr # ""
    THEN Exception("Exception", "Error while executing command: " \o FormatBytes(stderr))
    ELSE NoException

----------------------------------------------------------------------------
(* What runs the crafted command: bash and the AWS CLI, against the service *)

\* the words of s from index i on; s ends with a space
RECURSIVE WordsFrom(_, _)
WordsFrom(s, i) ==
    IF i > Len(s) THEN <<>>
    ELSE LET j == Find(s, " ", i)
         IN IF j = i THEN WordsFrom(s, i + 1)
            ELSE <<SubSeq(s, i, j - 1)>> \o WordsFrom(s, j + 1)

\* the words of a command line
Words(s) == WordsFrom(s \o " ", 1)

\* the script bash -c is given
CliScript(command) == SubSeq(command, Len("bash -c '") + 1, Len(command) - 1)

IsOption(w) == StartsWith(w, "--")
EnvNames == {"AWS_CA_BUNDLE", "AWS_ACCESS_KEY_ID", "AWS_SECRET_ACCESS_KEY", "AWS_DEFAULT_REGION"}
IsAssignment(w) == \E name \in EnvNames : StartsWith(w, name \o "=")
KnownOption(w) == StartsWith(w, "--endpoint=") \/ w = "--no-verify-ssl" \/ w = "--recursive"

\* the command line as the AWS CLI reads it: environment assignments, then
\* 'aws', the service, the subcommand and its arguments, options among them
CliParse(command) ==
    LET words == Words(CliScript(command))
        rest == SelectSeq(words, LAMBDA w : ~IsAssignment(w))
        options == SelectSeq(rest, IsOption)
        positional == SelectSeq(rest, LAMBDA w : ~IsOption(w))
    IN [ok |-> /\ Len(positional) >= 3
               /\ positional[1] = "aws"
               /\ positional[2] \in {"s3", "s3api"}
               /\ \A i \in 1..Len(options) : KnownOption(options[i]),
        service |-> IF Len(positional) >= 2 THEN positional[2] ELSE "",
        sub |-> IF Len(positional) >= 3 THEN positional[3] ELSE "",
        args |-> IF Len(positional) >= 4 THEN SubSeq(positional, 4, Len(positional)) ELSE <<>>,
        recursive |-> "--recursive" \in Range(options)]

\* s3://<bucket>/<key>
S3Url(url) ==
    LET path == SubSeq(url, Len("s3://") + 1, Len(url))
        j == Find(path \o "/", "/", 1)
    IN [bucket |-> SubSeq(path, 1, j - 1),
        key |-> IF j >= Len(path) THEN "" ELSE SubSeq(path, j + 1, Len(path))]

EndsWith(s, c) == s # "" /\ SubSeq(s, Len(s), Len(s)) = c

CliResult(stderr, buckets) == [stderr |-> stderr, buckets |-> buckets]

\* what a parsed command writes to stderr and the buckets after it; files are
\* the files of the local directory a sync uploads
CliEffect(p, files, buckets) ==
       IF ~p.ok
       THEN CliResult("usage: aws [options] <command> <subcommand> [parameters]", buckets)
       ELSE IF p.service = "s3" /\ p.sub = "sync" /\ Len(p.args) = 2
                 /\ StartsWith(p.args[2], "s3://")
       THEN LET url == S3Url(p.args[2])
                dir == IF url.key = "" \/ EndsWith(url.key, "/") THEN url.key
                       ELSE url.key \o "/"
            IN IF url.bucket \notin DOMAIN buckets
               THEN CliResult("upload failed: (NoSuchBucket)", buckets)
               ELSE CliResult("", [buckets EXCEPT ![url.bucket] = @ \cup {dir \o f : f \in files}])
       ELSE IF p.service = "s3" /\ p.sub = "rm" /\ Len(p.args) = 1 /\ p.recursive
                 /\ StartsWith(p.args[1], "s3://")
       THEN LET url == S3Url(p.args[1])
            IN IF url.bucket \notin DOMAIN buckets
               THEN CliResult("fatal error: (NoSuchBucket)", buckets)
               ELSE CliResult("", [buckets EXCEPT ![url.bucket] =
                                      {k \in @ : ~StartsWith(k, url.key)}])
       ELSE IF (p.service = "s3" /\ p.sub = "ls") \/ (p.service = "s3api" /\ p.sub = "list-buckets")
       THEN CliResult("", buckets)
       ELSE CliResult("usage: aws [options] <command> <subcommand> [parameters]", buckets)

\* the run of a crafted command
CliRun(command, files, buckets) ==
    CHOOSE result \in {CliEffect(p, files, buckets) : p \in {CliParse(command)}} : TRUE

\* the service's answers to the boto3 calls: the error code of the ClientError
\* boto3 raises, "" when the call succeeds
CreateBucketError(name, buckets) == IF name \in DOMAIN buckets THEN "BucketAlreadyExists" ELSE ""
DeleteBucketError(name, buckets) ==
    IF name \notin DOMAIN buckets THEN "NoSuchBucket"
    ELSE IF buckets[name] # {} THEN "BucketNotEmpty" ELSE ""
ListObjectsError(name, buckets) == IF name \notin DOMAIN buckets THEN "NoSuchBucket" ELSE ""

WithBucket(buckets, name) == [b \in DOMAIN buckets \cup {name} |-> IF b = name THEN {} ELSE buckets[b]]
WithoutBucket(buckets, name) == [b \in DOMAIN buckets \ {name} |-> buckets[b]]

\* the order the service lists names and keys in
ObjName(i) == "obj_" \o NatToStr(i)
BucketOrder == <<"bucket-1a2b3c4d", "bucket-5e6f7a8b">>
KeyOrder(amount) == [i \in 1..amount |-> ObjName(i - 1)] \o <<"report.txt">>

----------------------------------------------------------------------------
(* S3Client methods *)

\* S3Client.__init__
S3Client__init__(endpoint, access, secret, verify_tls) ==
    /\ s3Pc = Idle
    /\ s3Self' = S3ClientObject(endpoint, access, secret, verify_tls)
    /\ s3Ctor' = S3ClientObject(endpoint, access, secret, verify_tls)
    /\ s3Env' = IF verify_tls THEN PyStr(static_tls_crt_path) ELSE s3Env
    /\ s3Call' = S3Call("__init__", "", verify_tls, 0, "")
    /\ s3Cmds' = <<>>
    /\ s3Ret' = PyNone
    /\ s3Exc' = NoException
    /\ UNCHANGED <<s3Pc, s3Buckets, s3Local, s3Live, s3Deleted>>
    /\ UNCHANGED <<policyVars, anonVars, accVars, srvVars, pollVars, heapVars, utilVars, fixVars>>

\* lines 45-51: the AttributeError of an assignment to a property without a setter;
\* its text is the interpreter's (up to Python 3.9, Python 3.10, from Python 3.11 on)
SetPropertyErrors(name) ==
    {Exception("AttributeError", "can't set attribute"),
     Exception("AttributeError", "can't set attribute '" \o name \o "'"),
     Exception("AttributeError",
               "property '" \o name \o "' of 'S3Client' object has no setter")}

\* client.access_key = value, client.secret_key = value: the properties have no setter
set_property(name, value) ==
    /\ s3Self # NoClient
    /\ s3Pc = Idle
    /\ s3Call' = S3Call("__setattr__", name, FALSE, 0, "")
    /\ s3Cmds' = <<>>
    /\ s3Ret' = PyNone
    /\ s3Exc' \in SetPropertyErrors(name)
    /\ UNCHANGED <<s3Pc, s3Self, s3Ctor, s3Env, s3Local, s3Buckets, s3Live, s3Deleted>>
    /\ UNCHANGED <<policyVars, anonVars, accVars, srvVars, pollVars, heapVars, utilVars, fixVars>>

\* S3Client.exec_s3_cli_cmd
exec_s3_cli_cmd(cmd, api) ==
    /\ s3Self # NoClient
    /\ s3Pc = Idle
    /\ \E command \in {CraftedCommand(s3Self, cmd, api)} :
       \E run \in {CliRun(command, {}, s3Buckets)} :
       /\ s3Call' = S3Call("exec_s3_cli_cmd", cmd, api, 0, "")
       /\ s3Cmds' = <<command>>
       /\ s3Exc' = ExecS3CliOutcome(run.stderr)
       /\ s3Ret' = IF run.stderr # "" THEN PyNone ELSE PyStr("<output>")
       /\ s3Buckets' = run.buckets
       /\ UNCHANGED <<s3Pc, s3Self, s3Ctor, s3Env, s3Local, s3Live, s3Deleted>>
       /\ UNCHANGED <<policyVars, anonVars, accVars, srvVars, pollVars, heapVars, utilVars, fixVars>>

\* S3Client.create_bucket; random_name is what generate_unique_resource_name
\* returns, located whether the service's response holds "Location"
create_bucket(bucket_name, random_name, located) ==
    LET name == IF bucket_name = "" THEN random_name ELSE bucket_name
        error == CreateBucketError(name, s3Buckets)
        exc == IF error # "" THEN Exception("ClientError", error)
               ELSE IF ~located
                    THEN Exception("BucketCreationFailed",
                                   "Could not create bucket " \o name \o ". Response: <response>")
                    ELSE NoException
    IN /\ s3Self # NoClient
       /\ s3Pc = Idle
       /\ s3Call' = S3Call("create_bucket", bucket_name, FALSE, 0, "")
       /\ s3Cmds' = <<>>
       /\ s3Exc' = exc
       /\ s3Ret' = IF exc = NoException THEN PyStr(name) ELSE PyNone
       /\ s3Buckets' = IF exc = NoException THEN WithBucket(s3Buckets, name) ELSE s3Buckets
       /\ s3Live' = IF exc = NoException THEN s3Live \cup {name} ELSE s3Live
       /\ s3Deleted' = IF exc = NoException THEN s3Deleted \ {name} ELSE s3Deleted
       /\ UNCHANGED <<s3Pc, s3Self, s3Ctor, s3Env, s3Local>>
       /\ UNCHANGED <<policyVars, anonVars, accVars, srvVars, pollVars, heapVars, utilVars, fixVars>>

\* rm_recursive, line 202
RmRecursiveCmd(bucket_name, s3_path) == "rm s3://" \o bucket_name \o "/" \o s3_path \o " --recursive"

\* delete_bucket, line 121: the boto3 request and what it leaves
Boto3DeleteBucket(bucket_name) ==
    LET error == DeleteBucketError(bucket_name, s3Buckets)
    IN /\ s3Exc' = IF error # "" THEN Exception("ClientError", error) ELSE NoException
       /\ s3Ret' = PyNone
       /\ s3Buckets' = IF error = "" THEN WithoutBucket(s3Buckets, bucket_name) ELSE s3Buckets
       /\ s3Live' = IF error = "" THEN s3Live \ {bucket_name} ELSE s3Live
       /\ s3Deleted' = IF error = "" THEN s3Deleted \cup {bucket_name} ELSE s3Deleted
       /\ s3Pc' = Idle

\* S3Client.delete_bucket, up to its first request to the service: with
\* empty_before_deletion the rm of delete_all_objects_in_bucket (line 120), which
\* ends the call when it raises; without it the boto3 request of line 121
delete_bucket(bucket_name, empty_before_deletion) ==
    /\ s3Self # NoClient
    /\ s3Pc = Idle
    /\ s3Call' = S3Call("delete_bucket", bucket_name, empty_before_deletion, 0, "")
    /\ IF empty_before_deletion
       THEN \E command \in {CraftedCommand(s3Self, RmRecursiveCmd(bucket_name, ""), FALSE)} :
            \E run \in {CliRun(command, {}, s3Buckets)} :
               /\ s3Cmds' = <<command>>
               /\ s3Exc' = ExecS3CliOutcome(run.stderr)
               /\ s3Ret' = PyNone
               /\ s3Buckets' = run.buckets
               /\ s3Pc' = IF run.stderr # "" THEN Idle ELSE At("delete", "")
               /\ UNCHANGED <<s3Live, s3Deleted>>
       ELSE /\ s3Cmds' = <<>>
            /\ Boto3DeleteBucket(bucket_name)
    /\ UNCHANGED <<s3Self, s3Ctor, s3Env, s3Local>>
    /\ UNCHANGED <<policyVars, anonVars, accVars, srvVars, pollVars, heapVars, utilVars, fixVars>>

\* delete_bucket with empty_before_deletion, line 121: the boto3 request that
\* follows the rm
delete_bucket_after_rm ==
    /\ s3Pc.at = "delete"
    /\ Boto3DeleteBucket(s3Call.bucket_name)
    /\ UNCHANGED <<s3Call, s3Cmds, s3Self, s3Ctor, s3Env, s3Local>>
    /\ UNCHANGED <<policyVars, anonVars, accVars, srvVars, pollVars, heapVars, utilVars, fixVars>>

\* mutant of list_buckets, lines 131-132: the first listed bucket is dropped
ListBuckets_SkipFirst(buckets) ==
    LET listed == SelectSeq(BucketOrder, LAMBDA b : b \in DOMAIN buckets)
    IN PyList(IF listed = <<>> THEN <<>> ELSE Tail(listed))

\* list_buckets, lines 131-132: the names of the service's buckets
ListBuckets(buckets) == PyList(SelectSeq(BucketOrder, LAMBDA b : b \in DOMAIN buckets))

\* S3Client.list_buckets
list_buckets ==
    /\ s3Self # NoClient
    /\ s3Pc = Idle
    /\ s3Call' = S3Call("list_buckets", "", FALSE, 0, "")
    /\ s3Cmds' = <<>>
    /\ s3Exc' = NoException
    /\ s3Ret' = ListBuckets(s3Buckets)
    /\ UNCHANGED <<s3Pc, s3Self, s3Ctor, s3Env, s3Local, s3Buckets, s3Live, s3Deleted>>
    /\ UNCHANGED <<policyVars, anonVars, accVars, srvVars, pollVars, heapVars, utilVars, fixVars>>

\* list_objects, lines 142-146: [] when the response has no "Contents", else the keys
ListObjects(bucket_name, buckets) ==
    IF buckets[bucket_name] = {}
    THEN PyList(<<>>)
    ELSE PyList(SelectSeq(KeyOrder(MaxAmount), LAMBDA k : k \in buckets[bucket_name]))

\* S3Client.list_objects
list_objects(bucket_name) ==
    LET error == ListObjectsError(bucket_name, s3Buckets)
    IN /\ s3Self # NoClient
       /\ s3Pc = Idle
       /\ s3Call' = S3Call("list_objects", bucket_name, FALSE, 0, "")
       /\ s3Cmds' = <<>>
       /\ s3Exc' = IF error # "" THEN Exception("ClientError", error) ELSE NoException
       /\ s3Ret' = IF error # "" THEN PyNone ELSE ListObjects(bucket_name, s3Buckets)
       /\ UNCHANGED <<s3Pc, s3Self, s3Ctor, s3Env, s3Local, s3Buckets, s3Live, s3Deleted>>
       /\ UNCHANGED <<policyVars, anonVars, accVars, srvVars, pollVars, heapVars, utilVars, fixVars>>

\* write_random_objs_to_bucket, lines 222-230: the names of the generated objects
WrittenObjs(amount) == [i \in 1..amount |-> ObjName(i - 1)]

\* write_random_objs_to_bucket, lines 236-238: where the objects are synced to
SyncDestination(bucket_name, prefix) ==
    LET slashed == IF prefix # "" /\ ~EndsWith(prefix, "/") THEN prefix \o "/" ELSE prefix
    IN "s3://" \o slashed \o bucket_name

\* os.path.join(dir, name) for a directory name that is not empty
PathJoin(dir, name) == IF EndsWith(dir, "/") THEN dir \o name ELSE dir \o "/" \o name

\* write_random_objs_to_bucket, line 229
DdCommand(obj_path, obj_size) ==
    "dd if=/dev/urandom of=" \o obj_path \o " bs=" \o obj_size \o " count=1"

\* S3Client.write_random_objs_to_bucket, lines 204-245, up to the loop: tmp_dir is
\* the name the temporary directory gets when files_dir is empty
write_random_objs_to_bucket(bucket_name, amount, obj_size, prefix, files_dir, tmp_dir) ==
    /\ s3Self # NoClient
    /\ s3Pc = Idle
    /\ s3Call' = S3CallArgs("write_random_objs_to_bucket", bucket_name, FALSE, amount,
                            prefix, "", obj_size, files_dir)
    /\ s3Cmds' = <<>>
    /\ s3Exc' = NoException
    /\ s3Ret' = PyNone
    /\ s3Pc' = At("write", IF files_dir # "" THEN files_dir ELSE tmp_dir)
    /\ UNCHANGED <<s3Self, s3Ctor, s3Env, s3Buckets, s3Local, s3Live, s3Deleted>>
    /\ UNCHANGED <<policyVars, anonVars, accVars, srvVars, pollVars, heapVars, utilVars, fixVars>>

\* one round of the loop of lines 226-230: dd writes the next object into the
\* local directory
generate_object ==
    /\ s3Pc.at = "write"
    /\ Len(s3Cmds) < s3Call.amount
    /\ s3Cmds' = Append(s3Cmds, DdCommand(PathJoin(s3Pc.dir, ObjName(Len(s3Cmds))),
                                          s3Call.obj_size))
    /\ s3Local' = IF s3Call.files_dir # "" THEN s3Local \cup {ObjName(Len(s3Cmds))} ELSE s3Local
    /\ UNCHANGED <<s3Pc, s3Call, s3Ret, s3Exc, s3Self, s3Ctor, s3Env, s3Buckets, s3Live,
                   s3Deleted>>
    /\ UNCHANGED <<policyVars, anonVars, accVars, srvVars, pollVars, heapVars, utilVars, fixVars>>

\* lines 235-245, after the loop: the sync uploads every file of the directory,
\* the ones dd has written and, in a directory the caller gave, the ones left
\* there; then the call returns written_objs
upload_objects ==
    /\ s3Pc.at = "write"
    /\ Len(s3Cmds) = s3Call.amount
    /\ \E command \in {CraftedCommand(s3Self,
                          "sync " \o s3Pc.dir \o " "
                              \o SyncDestination(s3Call.bucket_name, s3Call.prefix), FALSE)} :
       \E written_objs \in {WrittenObjs(s3Call.amount)} :
       \E local \in {IF s3Call.files_dir # "" THEN s3Local ELSE Range(written_objs)} :
       \E run \in {CliEffect(CliParse(command), local, s3Buckets)} :
       /\ s3Cmds' = Append(s3Cmds, command)
       /\ s3Exc' = ExecS3CliOutcome(run.stderr)
       /\ s3Ret' = IF run.stderr # "" THEN PyNone ELSE PyList(written_objs)
       /\ s3Buckets' = run.buckets
       /\ s3Pc' = Idle
    /\ UNCHANGED <<s3Call, s3Self, s3Ctor, s3Env, s3Local, s3Live, s3Deleted>>
    /\ UNCHANGED <<policyVars, anonVars, accVars, srvVars, pollVars, heapVars, utilVars, fixVars>>

\* S3Client.sync, lines 180-188, for a local source and a destination in the service
sync(src, dst) ==
    /\ s3Self # NoClient
    /\ s3Pc = Idle
    /\ \E command \in {CraftedCommand(s3Self, "sync " \o src \o " " \o dst, FALSE)} :
       \E run \in {CliRun(command, Listing(src, s3Local), s3Buckets)} :
       /\ s3Call' = S3CallArgs("sync", "", FALSE, 0, "", dst, "", src)
       /\ s3Cmds' = <<command>>
       /\ s3Exc' = ExecS3CliOutcome(run.stderr)
       /\ s3Ret' = PyNone
       /\ s3Buckets' = run.buckets
    /\ UNCHANGED <<s3Pc, s3Self, s3Ctor, s3Env, s3Local, s3Live, s3Deleted>>
    /\ UNCHANGED <<policyVars, anonVars, accVars, srvVars, pollVars, heapVars, utilVars, fixVars>>

\* another client of the service puts an object, lines 148-155 run by that
\* client, at any time, between two requests of this client's call too
other_client_put_object(bucket_name, object_key) ==
    /\ bucket_name \in DOMAIN s3Buckets
    /\ object_key \notin s3Buckets[bucket_name]
    /\ s3Buckets' = [s3Buckets EXCEPT ![bucket_name] = @ \cup {object_key}]
    /\ UNCHANGED <<s3Pc, s3Call, s3Cmds, s3Ret, s3Exc, s3Self, s3Ctor, s3Env, s3Local, s3Live,
                   s3Deleted>>
    /\ UNCHANGED <<policyVars, anonVars, accVars, srvVars, pollVars, heapVars, utilVars, fixVars>>

\* the service's answers to put_object and delete_object: deleting a key that
\* is not there succeeds
ObjectError(name, buckets) == IF name \notin DOMAIN buckets THEN "NoSuchBucket" ELSE ""

\* S3Client.put_object, lines 153-155
put_object(bucket_name, object_key) ==
    LET error == ObjectError(bucket_name, s3Buckets)
    IN /\ s3Self # NoClient
       /\ s3Pc = Idle
       /\ s3Call' = S3CallArgs("put_object", bucket_name, FALSE, 0, "", object_key, "", "")
       /\ s3Cmds' = <<>>
       /\ s3Exc' = IF error # "" THEN Exception("ClientError", error) ELSE NoException
       /\ s3Ret' = PyNone
       /\ s3Buckets' = IF error # "" THEN s3Buckets
                       ELSE [s3Buckets EXCEPT ![bucket_name] = @ \cup {object_key}]
       /\ UNCHANGED <<s3Pc, s3Self, s3Ctor, s3Env, s3Local, s3Live, s3Deleted>>
       /\ UNCHANGED <<policyVars, anonVars, accVars, srvVars, pollVars, heapVars, utilVars, fixVars>>

\* S3Client.delete_object, line 195
delete_object(bucket_name, object_key) ==
    LET error == ObjectError(bucket_name, s3Buckets)
    IN /\ s3Self # NoClient
       /\ s3Pc = Idle
       /\ s3Call' = S3CallArgs("delete_object", bucket_name, FALSE, 0, "", object_key, "", "")
       /\ s3Cmds' = <<>>
       /\ s3Exc' = IF error # "" THEN Exception("ClientError", error) ELSE NoException
       /\ s3Ret' = PyNone
       /\ s3Buckets' = IF error # "" THEN s3Buckets
                       ELSE [s3Buckets EXCEPT ![bucket_name] = @ \ {object_key}]
       /\ UNCHANGED <<s3Pc, s3Self, s3Ctor, s3Env, s3Local, s3Live, s3Deleted>>
       /\ UNCHANGED <<policyVars, anonVars, accVars, srvVars, pollVars, heapVars, utilVars, fixVars>>

\* rm_recursive, lines 197-202, under the name of the method the caller calls
RmRecursive(op, bucket_name, s3_path) ==
    /\ s3Self # NoClient
    /\ s3Pc = Idle
    /\ \E command \in {CraftedCommand(s3Self, RmRecursiveCmd(bucket_name, s3_path), FALSE)} :
       \E run \in {CliRun(command, {}, s3Buckets)} :
       /\ s3Call' = S3CallArgs(op, bucket_name, FALSE, 0, "", s3_path, "", "")
       /\ s3Cmds' = <<command>>
       /\ s3Exc' = ExecS3CliOutcome(run.stderr)
       /\ s3Ret' = PyNone
       /\ s3Buckets' = run.buckets
       /\ UNCHANGED <<s3Pc, s3Self, s3Ctor, s3Env, s3Local, s3Live, s3Deleted>>
       /\ UNCHANGED <<policyVars, anonVars, accVars, srvVars, pollVars, heapVars, utilVars, fixVars>>

\* S3Client.rm_recursive
rm_recursive(bucket_name, s3_path) == RmRecursive("rm_recursive", bucket_name, s3_path)

\* S3Client.delete_all_objects_in_bucket, line 254
delete_all_objects_in_bucket(bucket_name) ==
    RmRecursive("delete_all_objects_in_bucket", bucket_name, "")

----------------------------------------------------------------------------
(* utility.utils.TimeoutSampler, the polling helper of tests/test_cors_operations.py:
   wait_for_func_value calls func, stops when it returns the value waited for,
   fails when the timeout is exceeded, and sleeps before the next call. *)

\* the arguments of the sampler and of wait_for_func_value
Timeouts == 0..MaxTimeout
Sleeps == 1..MaxSleep
PollValues == {PyInt(200), PyInt(403)}

\* the time one call of func can take
CallDurations == {0, 1}

Sampler(timeout, sleep, value) == [timeout |-> timeout, sleep |-> sleep, value |-> value]

\* mutant: the timeout is never found exceeded
TimedOut_Never(elapsed, timeout) == FALSE

\* the timeout is exceeded
TimedOut(elapsed, timeout) == timeout < elapsed

\* TimeoutSampler(timeout, sleep, func).wait_for_func_value(value): the wait starts
wait_for_func_value(timeout, sleep, value) ==
    /\ pollPc \in {"idle", "True", "False"}
    /\ pollArgs' = Sampler(timeout, sleep, value)
    /\ pollPc' = "call"
    /\ pollElapsed' = 0
    /\ pollCalls' = 0
    /\ pollLast' = PyNone
    /\ UNCHANGED <<policyVars, anonVars, accVars, srvVars, s3Vars, heapVars, utilVars, fixVars>>

\* one call of func: it returns result after took units of time
poll_call(result, took) ==
    /\ pollPc = "call"
    /\ pollCalls' = pollCalls + 1
    /\ pollLast' = result
    /\ pollElapsed' = pollElapsed + took
    /\ pollPc' = IF result = pollArgs.value THEN "True"
                 ELSE IF TimedOut(pollElapsed + took, pollArgs.timeout) THEN "False"
                      ELSE "sleep"
    /\ UNCHANGED pollArgs
    /\ UNCHANGED <<policyVars, anonVars, accVars, srvVars, s3Vars, heapVars, utilVars, fixVars>>

\* time.sleep(sleep) between two calls
poll_sleep ==
    /\ pollPc = "sleep"
    /\ pollElapsed' = pollElapsed + pollArgs.sleep
    /\ pollPc' = "call"
    /\ UNCHANGED <<pollArgs, pollCalls, pollLast>>
    /\ UNCHANGED <<policyVars, anonVars, accVars, srvVars, s3Vars, heapVars, utilVars, fixVars>>

----------------------------------------------------------------------------
(* utility/utils.py: parse_dd_size_to_kb and generate_random_files *)

MaxFiles == 2

\* generate_random_files is called with sizes at most MaxSpread kilobytes apart
MaxSpread == 2

\* the sizes the functions are called with; NumberedSizes leaves out the
\* negative ones, which generate_random_files would hand to dd as a block size
NumberedSizes == {"", "K", "0K", "1K", "2K", "3K", "1023K", "1M", "1G", "5X", "12"}
Sizes == NumberedSizes \cup {"10K", "0M", "2M", "1k", "1.5M", "-1K", "+2M"}

UtilCall(op, amount, min_size, max_size) ==
    [op |-> op, amount |-> amount, min_size |-> min_size, max_size |-> max_size]

\* int(text) for text without blanks and underscores: decimal digits after an
\* optional sign; ok is false where int raises ValueError
PyIntOf(text) ==
    IF IsDigits(text) THEN [ok |-> TRUE, val |-> StrToNat(text)]
    ELSE IF Len(text) > 1 /\ SubSeq(text, 1, 1) \in {"-", "+"}
            /\ IsDigits(SubSeq(text, 2, Len(text)))
    THEN [ok |-> TRUE,
          val |-> IF SubSeq(text, 1, 1) = "-" THEN 0 - StrToNat(SubSeq(text, 2, Len(text)))
                  ELSE StrToNat(SubSeq(text, 2, Len(text)))]
    ELSE [ok |-> FALSE, val |-> 0]

Returned(value) == [ret |-> value, exc |-> NoException]
Raised(type, msg) == [ret |-> PyNone, exc |-> Exception(type, msg)]

\* mutant of lines 166-169: decimal multiples
ParseDdSizeToKb_Decimal(size) ==
    IF size = "" THEN Raised("IndexError", "string index out of range")
    ELSE LET unit == SubSeq(size, Len(size), Len(size))
             number == PyIntOf(SubSeq(size, 1, Len(size) - 1))
         IN IF ~number.ok
            THEN Raised("ValueError", "invalid literal for int() with base 10: '"
                                      \o SubSeq(size, 1, Len(size) - 1) \o "'")
            ELSE IF unit = "K" THEN Returned(PyInt(number.val))
            ELSE IF unit = "M" THEN Returned(PyInt(number.val * 1000))
            ELSE IF unit = "G" THEN Returned(PyInt(number.val * 1000 * 1000))
            ELSE Raised("ValueError", "Invalid size unit. Use 'K', 'M', or 'G'.")

\* parse_dd_size_to_kb, lines 162-171: size[-1], then int(size[:-1]), then the unit
ParseDdSizeToKb(size) ==
    IF size = "" THEN Raised("IndexError", "string index out of range")
    ELSE LET unit == SubSeq(size, Len(size), Len(size))
             number == PyIntOf(SubSeq(size, 1, Len(size) - 1))
         IN IF ~number.ok
            THEN Raised("ValueError", "invalid literal for int() with base 10: '"
                                      \o SubSeq(size, 1, Len(size) - 1) \o "'")
            ELSE IF unit = "K" THEN Returned(PyInt(number.val))
            ELSE IF unit = "M" THEN Returned(PyInt(number.val * 1024))
            ELSE IF unit = "G" THEN Returned(PyInt(number.val * 1024 * 1024))
            ELSE Raised("ValueError", "Invalid size unit. Use 'K', 'M', or 'G'.")

\* utility.utils.parse_dd_size_to_kb
parse_dd_size_to_kb(size) ==
    /\ utilCall' = UtilCall("parse_dd_size_to_kb", 0, size, "")
    /\ utilRet' = ParseDdSizeToKb(size).ret
    /\ utilExc' = ParseDdSizeToKb(size).exc
    /\ utilFiles' = <<>>
    /\ UNCHANGED <<policyVars, anonVars, accVars, srvVars, s3Vars, pollVars, heapVars, fixVars>>

\* generate_random_files, lines 119-126: the range of sizes, or the exception
SizeRange(min_size, max_size) ==
    LET min_size_kb == ParseDdSizeToKb(min_size)
        max_size_kb == ParseDdSizeToKb(max_size)
    IN IF min_size_kb.exc # NoException THEN [exc |-> min_size_kb.exc, lo |-> 0, hi |-> 0]
       ELSE IF max_size_kb.exc # NoException THEN [exc |-> max_size_kb.exc, lo |-> 0, hi |-> 0]
       ELSE IF min_size_kb.ret.val > max_size_kb.ret.val
       THEN [exc |-> Exception("ValueError", "min_size cannot be greater than max_size"),
             lo |-> 0, hi |-> 0]
       ELSE IF min_size_kb.ret.val = 0 \/ max_size_kb.ret.val = 0
       THEN [exc |-> Exception("ValueError", "Size units cannot be zero"), lo |-> 0, hi |-> 0]
       ELSE [exc |-> NoException, lo |-> min_size_kb.ret.val, hi |-> max_size_kb.ret.val]

\* random.randint(a, b): any integer N with a <= N <= b
RandomDraws(a, b) == a..b

\* line 137, dd if=/dev/urandom of=<path> bs=<size> count=1: the size in bytes of
\* the file written (a block size without a suffix is a number of bytes)
DdFileBytes(bs, count) == bs * count

\* utility.utils.generate_random_files, called on an empty directory; range is
\* what lines 119-126 make of the sizes, draws are the values random.randint
\* returns, one per file
generate_random_files(amount, min_size, max_size, range, draws) ==
    /\ utilCall' = UtilCall("generate_random_files", amount, min_size, max_size)
    /\ utilExc' = range.exc
    /\ IF range.exc # NoException
       THEN /\ utilRet' = PyNone
            /\ utilFiles' = <<>>
       ELSE /\ utilRet' = PyList([i \in 1..amount |-> PyStr(ObjName(i - 1))])
            /\ utilFiles' = [name \in {ObjName(i - 1) : i \in 1..amount} |->
                               DdFileBytes(draws[CHOOSE i \in 1..amount : ObjName(i - 1) = name], 1)]
    /\ UNCHANGED <<policyVars, anonVars, accVars, srvVars, s3Vars, pollVars, heapVars, fixVars>>

----------------------------------------------------------------------------
(* BucketPolicy and BucketPolicyBuilder as objects: several policies and
   builders, each builder holding a reference to a policy *)

MaxPolicies == 3
MaxBuilders == 2
MaxHeapCalls == 5

NoHeapCall == [n |-> 0, op |-> "None", builder |-> 0, policy |-> 0, raised |-> "None"]
HeapCall(n, op, builder, policy, exc) ==
    [n |-> n, op |-> op, builder |-> builder, policy |-> policy, raised |-> exc]

\* BucketPolicy.__init__, lines 20-22
NewBucketPolicy == [version |-> DEFAULT_VERSION, statements |-> <<>>]

\* BucketPolicyBuilder.__init__, line 43: policy or BucketPolicy(); policy is a
\* reference, 0 for None (a BucketPolicy defines neither __bool__ nor __len__,
\* so every policy object is truthy)
PolicyOrNew(h, policy) ==
    IF policy # 0
    THEN [heap |-> h, policy |-> policy]
    ELSE [heap |-> Append(h, NewBucketPolicy), policy |-> Len(h) + 1]

\* mutant of build, line 112: a copy of the policy is returned
BuildResult_Copy(h, policy) == [heap |-> Append(h, h[policy]), ref |-> Len(h) + 1]

\* build, line 112: return self.policy
BuildResult(h, policy) == [heap |-> h, ref |-> policy]

\* the policy documents from_json is called with: policies as json.dumps
\* writes them, an object without "Version", one without "Statement", and
\* texts that are no JSON object
PolicyJsons ==
    { "{}",
      "{\"Version\": \"2008-10-17\", \"Statement\": [{\"Effect\": \"Allow\", \"Principal\": {\"AWS\": \"*\"}}]}",
      "{\"Statement\": [{\"Effect\": \"Deny\", \"Action\": [\"s3:GetObject\"]}, {\"Effect\": \"Allow\"}]}",
      "{\"Version\": \"2012-10-17\"}",
      "[]",
      "",
      "{\"Version\": \"2008-10-17\"" }

\* the JSON decoder, for texts of objects, arrays, strings without escapes and
\* natural numbers, blanks between the tokens: the value that starts at
\* position i and the position after it, or ok false where the decoder raises
JsonFail == [ok |-> FALSE, val |-> PyNone, next |-> 0]
JsonAt(val, next) == [ok |-> TRUE, val |-> val, next |-> next]

RECURSIVE JsonWs(_, _)
JsonWs(text, i) == IF i <= Len(text) /\ SubSeq(text, i, i) = " " THEN JsonWs(text, i + 1) ELSE i

RECURSIVE JsonDigitsEnd(_, _)
JsonDigitsEnd(text, i) ==
    IF i <= Len(text) /\ IsDigit(SubSeq(text, i, i)) THEN JsonDigitsEnd(text, i + 1) ELSE i

RECURSIVE JsonParse(_, _)
RECURSIVE JsonMembers(_, _, _)
RECURSIVE JsonElements(_, _, _)

\* the members of an object from position i on, d the members read so far
JsonMembers(text, i, d) ==
    LET key == JsonParse(text, i)
        colon == JsonWs(text, key.next)
        value == JsonParse(text, colon + 1)
        after == JsonWs(text, value.next)
    IN IF ~key.ok \/ key.val.type # "str" \/ colon > Len(text) \/ SubSeq(text, colon, colon) # ":"
       THEN JsonFail
       ELSE IF ~value.ok \/ after > Len(text) THEN JsonFail
       ELSE IF SubSeq(text, after, after) = "}"
       THEN JsonAt(PyDict(PutKey(d, key.val.val, value.val)), after + 1)
       ELSE IF SubSeq(text, after, after) = ","
       THEN JsonMembers(text, after + 1, PutKey(d, key.val.val, value.val))
       ELSE JsonFail

\* the elements of an array from position i on, l the elements read so far
JsonElements(text, i, l) ==
    LET value == JsonParse(text, i)
        after == JsonWs(text, value.next)
    IN IF ~value.ok \/ after > Len(text) THEN JsonFail
       ELSE IF SubSeq(text, after, after) = "]"
       THEN JsonAt(PyList(Append(l, value.val)), after + 1)
       ELSE IF SubSeq(text, after, after) = ","
       THEN JsonElements(text, after + 1, Append(l, value.val))
       ELSE JsonFail

JsonParse(text, i0) ==
    LET i == JsonWs(text, i0)
        c == IF i <= Len(text) THEN SubSeq(text, i, i) ELSE ""
    IN IF c = "\""
       THEN LET j == Find(text \o "\"", "\"", i + 1)
            IN IF j > Len(text) \/ Contains(SubSeq(text, i + 1, j - 1), "\\") THEN JsonFail
               ELSE JsonAt(PyStr(SubSeq(text, i + 1, j - 1)), j + 1)
       ELSE IF c = "{"
       THEN LET k == JsonWs(text, i + 1)
            IN IF k <= Len(text) /\ SubSeq(text, k, k) = "}"
               THEN JsonAt(PyDict(EmptyDict), k + 1)
               ELSE JsonMembers(text, k, EmptyDict)
       ELSE IF c = "["
       THEN LET k == JsonWs(text, i + 1)
            IN IF k <= Len(text) /\ SubSeq(text, k, k) = "]"
               THEN JsonAt(PyList(<<>>), k + 1)
               ELSE JsonElements(text, k, <<>>)
       ELSE IF IsDigit(c)
       THEN LET j == JsonDigitsEnd(text, i)
            IN IF IsJsonNat(SubSeq(text, i, j - 1))
               THEN JsonAt(PyInt(StrToNat(SubSeq(text, i, j - 1))), j)
               ELSE JsonFail
       ELSE JsonFail

\* json.loads(json_str), line 14: the value, when the text is one value and
\* nothing else
PolicyJsonLoads(json_str) ==
    LET value == JsonParse(json_str, 1)
    IN IF value.ok /\ JsonWs(json_str, value.next) = Len(json_str) + 1 THEN value ELSE JsonFail

\* data.get(key, default) of a dict
DictGet(data, key, default) == IF key \in DOMAIN data.val THEN data.val[key] ELSE default

\* from_json, lines 15-18: the policy made of a decoded object whose "Version"
\* is a string and whose "Statement" is a list of objects
PolicyOfData(data) ==
    [version |-> DictGet(data, "Version", PyStr(DEFAULT_VERSION)).val,
     statements |-> LET l == DictGet(data, "Statement", PyList(<<>>)).val
                    IN [i \in 1..Len(l) |-> l[i].val]]

\* BucketPolicy.from_json(json_str), lines 12-18: a JSONDecodeError of
\* json.loads, an AttributeError where the value has no get, or a new policy
from_json(json_str) ==
    /\ heapCall.n < MaxHeapCalls
    /\ Len(heap) < MaxPolicies
    /\ LET data == PolicyJsonLoads(json_str)
       IN IF ~data.ok
          THEN /\ heapCall' = HeapCall(heapCall.n + 1, "from_json", 0, 0, "JSONDecodeError")
               /\ UNCHANGED heap
          ELSE IF data.val.type # "dict"
          THEN /\ heapCall' = HeapCall(heapCall.n + 1, "from_json", 0, 0, "AttributeError")
               /\ UNCHANGED heap
          ELSE /\ heapCall' = HeapCall(heapCall.n + 1, "from_json", 0, Len(heap) + 1, "None")
               /\ heap' = Append(heap, PolicyOfData(data.val))
    /\ UNCHANGED <<bPolicy, bGiven, built>>
    /\ UNCHANGED <<policyVars, anonVars, accVars, srvVars, s3Vars, pollVars, utilVars, fixVars>>

\* policy = BucketPolicy()
BucketPolicy__init__ ==
    /\ heapCall.n < MaxHeapCalls
    /\ Len(heap) < MaxPolicies
    /\ heap' = Append(heap, NewBucketPolicy)
    /\ heapCall' = HeapCall(heapCall.n + 1, "BucketPolicy", 0, Len(heap) + 1, "None")
    /\ UNCHANGED <<bPolicy, bGiven, built>>
    /\ UNCHANGED <<policyVars, anonVars, accVars, srvVars, s3Vars, pollVars, utilVars, fixVars>>

\* BucketPolicyBuilder(policy), policy an existing policy or 0 for None
BucketPolicyBuilder__init__(policy) ==
    /\ heapCall.n < MaxHeapCalls
    /\ Len(bPolicy) < MaxBuilders
    /\ policy = 0 => Len(heap) < MaxPolicies
    /\ heap' = PolicyOrNew(heap, policy).heap
    /\ bPolicy' = Append(bPolicy, PolicyOrNew(heap, policy).policy)
    /\ bGiven' = Append(bGiven, policy)
    /\ heapCall' = HeapCall(heapCall.n + 1, "BucketPolicyBuilder", Len(bPolicy) + 1, policy,
                            "None")
    /\ UNCHANGED built
    /\ UNCHANGED <<policyVars, anonVars, accVars, srvVars, s3Vars, pollVars, utilVars, fixVars>>

\* add_allow_statement / add_deny_statement of builder self, lines 46-52
add_statement_of(self, op, effect) ==
    /\ heapCall.n < MaxHeapCalls
    /\ heap' = [heap EXCEPT ![bPolicy[self]].statements = Append(@, [Effect |-> PyStr(effect)])]
    /\ heapCall' = HeapCall(heapCall.n + 1, op, self, 0, "None")
    /\ UNCHANGED <<bPolicy, bGiven, built>>
    /\ UNCHANGED <<policyVars, anonVars, accVars, srvVars, s3Vars, pollVars, utilVars, fixVars>>

\* add_principal / add_action of builder self, lines 54-60 and 78-100
add_property_of(self, op, property, value) ==
    /\ heapCall.n < MaxHeapCalls
    /\ IF heap[bPolicy[self]].statements = <<>>
       THEN /\ heapCall' = HeapCall(heapCall.n + 1, op, self, 0, "ValueError")
            /\ UNCHANGED heap
       ELSE /\ heapCall' = HeapCall(heapCall.n + 1, op, self, 0, "None")
            /\ heap' = [heap EXCEPT ![bPolicy[self]].statements =
                                       UpdatePropertyOnLastStatement(@, property, value)]
    /\ UNCHANGED <<bPolicy, bGiven, built>>
    /\ UNCHANGED <<policyVars, anonVars, accVars, srvVars, s3Vars, pollVars, utilVars, fixVars>>

\* build of builder self, lines 111-112
build(self) ==
    /\ heapCall.n < MaxHeapCalls
    /\ heap' = BuildResult(heap, bPolicy[self]).heap
    /\ built' = Append(built, [builder |-> self, ref |-> BuildResult(heap, bPolicy[self]).ref])
    /\ heapCall' = HeapCall(heapCall.n + 1, "build", self, 0, "None")
    /\ UNCHANGED <<bPolicy, bGiven>>
    /\ UNCHANGED <<policyVars, anonVars, accVars, srvVars, s3Vars, pollVars, utilVars, fixVars>>

----------------------------------------------------------------------------
(* tests/conftest.py: the s3_client_factory fixture over one test *)

MaxFactoryCalls == 4

\* the arguments tests call create_s3client with
KeyTuples == {PyNone, PyList(<<PyStr("a1b2"), PyStr("c3d4")>>)}
EndpointPorts == {6443, 7004}
NsfsHost == "nsfs"

FixCall(n, keys, verify_tls, endpoint_port) ==
    [op |-> "create_s3client", n |-> n, access_and_secret_keys_tuple |-> keys,
     verify_tls |-> verify_tls, endpoint_port |-> endpoint_port]

\* lines 138-140: unique_resource_name(prefix="account") and random_hex() name
\* the fixture functions of lines 157-182, which s3_client_factory does not
\* request. Called directly, a fixture function fails the test (pytest's
\* "Fixture called directly"), and the undecorated functions take (request)
\* only; which of the two is raised depends on the pytest in use. keyword is
\* the keyword argument of the call, "" for a call without arguments; the
\* message of Failed is its first sentence
DirectFixtureCall(fixture, keyword) ==
    { Exception("Failed", "Fixture \"" \o fixture \o "\" called directly"),
      Exception("TypeError",
                IF keyword # ""
                THEN fixture \o "() got an unexpected keyword argument '" \o keyword \o "'"
                ELSE fixture \o "() missing 1 required positional argument: 'request'") }

\* the keyword parameters of S3Client.__init__, s3_client.py line 26
S3ClientParameters == {"endpoint", "access_key", "secret_key", "verify_tls"}

\* the names a TypeError gives S3Client.__init__: the function up to Python 3.9,
\* the qualified function from Python 3.10 on
InitNames == {"__init__", "S3Client.__init__"}

\* S3Client(**kwargs), lines 147-152: the outcomes of the call, the client, or
\* TypeError for a keyword the constructor does not have
ConstructS3Client(kwargs) ==
    IF DOMAIN kwargs \subseteq S3ClientParameters
    THEN {Returned([type |-> "S3Client", val |-> kwargs])}
    ELSE {Raised("TypeError", f \o "() got an unexpected keyword argument '"
                              \o (CHOOSE k \in DOMAIN kwargs : k \notin S3ClientParameters)
                              \o "'") : f \in InitNames}

\* the finalizers the fixtures register: account_manager (lines 20-23) and
\* s3_client_factory (lines 119-154) return without yield and add none
Finalizers == <<>>

\* account_manager.create(account_name, access_key, secret_key, config_root)
AccountCreated(accounts, account_name) == accounts \cup {account_name}

\* s3_client_factory, lines 128-154: the certificate is set up and
\* create_s3client is returned to the test
s3_client_factory ==
    /\ fixPc = "setup"
    /\ fixPc' = "test"
    /\ UNCHANGED <<fixAccounts, fixCreated, fixCall, fixRet, fixExc>>
    /\ UNCHANGED <<policyVars, anonVars, accVars, srvVars, s3Vars, pollVars, heapVars, utilVars>>

\* create_s3client, lines 130-152; name_error is what the direct call of line
\* 138 raises
create_s3client(access_and_secret_keys_tuple, verify_tls, endpoint_port, name_error) ==
    /\ fixPc = "test"
    /\ fixCall.n < MaxFactoryCalls
    /\ fixCall' = FixCall(fixCall.n + 1, access_and_secret_keys_tuple, verify_tls, endpoint_port)
    /\ LET generated == access_and_secret_keys_tuple = PyNone
           account_name == "account-" \o NatToStr(fixCall.n + 1)
           clients == ConstructS3Client(
               [endpoint |-> "https://" \o NsfsHost \o ":" \o NatToStr(endpoint_port),
                access_key |-> IF generated THEN PyStr("e5f6")
                               ELSE access_and_secret_keys_tuple.val[1],
                secret_key |-> IF generated THEN PyStr("a7b8")
                               ELSE access_and_secret_keys_tuple.val[2],
                tls_crt_path |-> IF verify_tls THEN PyStr("/tmp/tls.crt") ELSE PyNone])
       IN IF generated /\ name_error # NoException
          THEN \* line 138 raises: account_manager.create of line 142 is not reached
               /\ fixExc' = name_error
               /\ fixRet' = PyNone
               /\ UNCHANGED <<fixAccounts, fixCreated>>
          ELSE /\ fixAccounts' = IF generated THEN AccountCreated(fixAccounts, account_name)
                                 ELSE fixAccounts
               /\ fixCreated' = IF generated THEN fixCreated \cup {account_name}
                                ELSE fixCreated
               /\ \E client \in clients :
                     /\ fixExc' = client.exc
                     /\ fixRet' = client.ret
    /\ UNCHANGED fixPc
    /\ UNCHANGED <<policyVars, anonVars, accVars, srvVars, s3Vars, pollVars, heapVars, utilVars>>

\* the test function returns or raises
test_ends ==
    /\ fixPc = "test"
    /\ fixPc' = "teardown"
    /\ UNCHANGED <<fixAccounts, fixCreated, fixCall, fixRet, fixExc>>
    /\ UNCHANGED <<policyVars, anonVars, accVars, srvVars, s3Vars, pollVars, heapVars, utilVars>>

\* the accounts after the finalizers from index i on have run, each deleting
\* the accounts it names
RECURSIVE RunFinalizers(_, _, _)
RunFinalizers(finalizers, i, accounts) ==
    IF i > Len(finalizers) THEN accounts
    ELSE RunFinalizers(finalizers, i + 1, accounts \ finalizers[i])

\* pytest tears the fixtures down: the registered finalizers run
fixture_teardown ==
    /\ fixPc = "teardown"
    /\ fixPc' = "done"
    /\ fixAccounts' = RunFinalizers(Finalizers, 1, fixAccounts)
    /\ UNCHANGED <<fixCreated, fixCall, fixRet, fixExc>>
    /\ UNCHANGED <<policyVars, anonVars, accVars, srvVars, s3Vars, pollVars, heapVars, utilVars>>

\* BucketPolicyBuilder() over a fresh BucketPolicy(); AnonymousAccountManager();
\* S3OperationAccessTester(admin_client); no S3Client, sampler, further policy or
\* builder object yet; the fixtures of a test about to be set up
Init ==
    /\ version = DEFAULT_VERSION
    /\ statements = <<>>
    /\ lastCall = [op |-> "__init__", property |-> "", value |-> ""]
    /\ raised = "None"
    /\ hist = <<>>
    /\ nCalls = 0
    /\ anonCall = [op |-> "__init__", uid |-> PyNone, gid |-> PyNone, user |-> PyNone]
    /\ anonCmds = <<>>
    /\ anonExec = NoExec
    /\ anonExc = NoException
    /\ anonRet = PyNone
    /\ deletesInARow = 0
    /\ accCall = [s3_client |-> "None", bucket |-> "None", operation |-> "None",
                  setup_kwargs |-> "None"]
    /\ accStrategy = NoStrategy
    /\ accTrace = <<>>
    /\ accResponse = NoResponse
    /\ accRet = PyNone
    /\ accExc = NoException
    /\ srvAccount = NoAccount
    /\ srvGiven = NoAccount
    /\ s3Self = NoClient
    /\ s3Ctor = NoClient
    /\ s3Env = PyNone
    /\ s3Buckets = <<>>
    /\ s3Call = [op |-> "None"]
    /\ s3Cmds = <<>>
    /\ s3Ret = PyNone
    /\ s3Exc = NoException
    /\ s3Live = {}
    /\ s3Deleted = {}
    /\ s3Local = {}
    /\ s3Pc = Idle
    /\ pollArgs = NoSampler
    /\ pollPc = "idle"
    /\ pollElapsed = 0
    /\ pollCalls = 0
    /\ pollLast = PyNone
    /\ heap = <<>>
    /\ bPolicy = <<>>
    /\ bGiven = <<>>
    /\ built = <<>>
    /\ heapCall = NoHeapCall
    /\ utilCall = [op |-> "None"]
    /\ utilRet = PyNone
    /\ utilExc = NoException
    /\ utilFiles = <<>>
    /\ fixPc = "setup"
    /\ fixAccounts = {}
    /\ fixCreated = {}
    /\ fixCall = FixCall(0, PyNone, TRUE, 0)
    /\ fixRet = PyNone
    /\ fixExc = NoException

Next ==
    \/ add_allow_statement
    \/ add_deny_statement
    \/ \E v \in PrincipalValues : add_principal(v)
    \/ \E v \in PrincipalValues : add_not_principal(v)
    \/ \E v \in ActionValues : add_action(v)
    \/ \E v \in ActionValues : add_not_action(v)
    \/ \E v \in ResourceValues : add_resource(v)
    \/ \E v \in ResourceValues : add_not_resource(v)

NextAnon ==
    \/ \E uid \in Uids, gid \in Gids, user \in Users, res \in ExecResults :
          create(uid, gid, user, res) /\ UNCHANGED srvVars
    \/ \E res \in ExecResults : delete(res) /\ UNCHANGED srvVars
    \/ \E uid \in Uids, gid \in Gids, user \in Users, res \in ExecResults :
          update(uid, gid, user, res) /\ UNCHANGED srvVars
    \/ \E res \in ExecResults : status(res) /\ UNCHANGED srvVars

NextAnonServer ==
    \/ \E uid \in Uids, gid \in Gids, user \in Users : create_on_server(uid, gid, user)
    \/ delete_on_server
    \/ \E uid \in Uids, gid \in Gids, user \in Users : update_on_server(uid, gid, user)
    \/ status_on_server

NextS3 ==
    \/ \E endpoint \in Endpoints, creds \in Credentials, verify_tls \in BOOLEAN :
          S3Client__init__(endpoint, creds[1], creds[2], verify_tls)
    \/ \E name \in {"access_key", "secret_key"} : set_property(name, PyStr("e5f6"))
    \/ \E cmd \in CliCmds, api \in BOOLEAN : exec_s3_cli_cmd(cmd, api)
    \/ \E bucket_name \in GivenNames, located \in BOOLEAN :
       \E random_name \in GeneratedNames(bucket_name) :
          create_bucket(bucket_name, random_name, located)
    \/ \E bucket_name \in BucketNames, empty_before_deletion \in BOOLEAN :
          delete_bucket(bucket_name, empty_before_deletion)
    \/ delete_bucket_after_rm
    \/ list_buckets
    \/ \E bucket_name \in BucketNames : list_objects(bucket_name)
    \/ \E bucket_name \in BucketNames, amount \in 0..MaxAmount, obj_size \in ObjSizes,
          prefix \in Prefixes, tmp_dir \in TmpDirs :
          write_random_objs_to_bucket(bucket_name, amount, obj_size, prefix, "", tmp_dir)
    \/ generate_object
    \/ upload_objects
    \/ \E bucket_name \in BucketNames : sync(ReportsDir, "s3://" \o bucket_name)
    \/ \E bucket_name \in BucketNames, object_key \in OtherKeys :
          other_client_put_object(bucket_name, object_key)
    \/ \E bucket_name \in BucketNames, object_key \in ObjectKeys :
          put_object(bucket_name, object_key)
    \/ \E bucket_name \in BucketNames, object_key \in ObjectKeys :
          delete_object(bucket_name, object_key)
    \/ \E bucket_name \in BucketNames, s3_path \in S3Paths : rm_recursive(bucket_name, s3_path)
    \/ \E bucket_name \in BucketNames : delete_all_objects_in_bucket(bucket_name)

\* one client writing from a temporary directory or from a directory the caller
\* gives, where earlier files stay
NextS3Files ==
    \/ \E endpoint \in Endpoints, creds \in Credentials :
          S3Client__init__(endpoint, creds[1], creds[2], TRUE)
    \/ \E bucket_name \in GivenNames :
       \E random_name \in GeneratedNames(bucket_name) :
          create_bucket(bucket_name, random_name, TRUE)
    \/ \E bucket_name \in BucketNames : list_objects(bucket_name)
    \/ \E bucket_name \in BucketNames : delete_all_objects_in_bucket(bucket_name)
    \/ \E bucket_name \in BucketNames, amount \in 0..MaxAmount, obj_size \in ObjSizes,
          prefix \in Prefixes, files_dir \in FilesDirs, tmp_dir \in TmpDirs :
          write_random_objs_to_bucket(bucket_name, amount, obj_size, prefix, files_dir, tmp_dir)
    \/ generate_object
    \/ upload_objects
    \/ \E src \in (FilesDirs \ {""}) \cup {ReportsDir}, bucket_name \in BucketNames :
          sync(src, "s3://" \o bucket_name)
    \/ \E bucket_name \in BucketNames, object_key \in OtherKeys :
          other_client_put_object(bucket_name, object_key)

NextPoll ==
    \/ \E timeout \in Timeouts, sleep \in Sleeps, value \in PollValues :
          wait_for_func_value(timeout, sleep, value)
    \/ \E result \in PollValues, took \in CallDurations : poll_call(result, took)
    \/ poll_sleep

NextAccess ==
    \E s3_client \in Clients, bucket \in Buckets, operation \in Operations,
       setup_kwargs \in SetupKwargs, setupKind \in SetupKinds, code \in ResponseCodes :
          check_client_access_to_bucket_op(s3_client, bucket, operation, setup_kwargs,
                                           setupKind, code)

NextHeap ==
    \/ BucketPolicy__init__
    \/ \E policy \in 0..Len(heap) : BucketPolicyBuilder__init__(policy)
    \/ \E self \in 1..Len(bPolicy) : add_statement_of(self, "add_allow_statement", "Allow")
    \/ \E self \in 1..Len(bPolicy) : add_statement_of(self, "add_deny_statement", "Deny")
    \/ \E self \in 1..Len(bPolicy) : add_property_of(self, "add_principal", "Principal", "*")
    \/ \E self \in 1..Len(bPolicy) : add_property_of(self, "add_action", "Action", "*")
    \/ \E self \in 1..Len(bPolicy) : build(self)
    \/ \E json_str \in PolicyJsons : from_json(json_str)

NextUtil ==
    \/ \E size \in Sizes : parse_dd_size_to_kb(size)
    \/ \E min_size \in NumberedSizes, max_size \in NumberedSizes :
       \E range \in {SizeRange(min_size, max_size)} :
       \E amount \in 0..MaxFiles :
          /\ range.hi - range.lo <= MaxSpread
          /\ IF range.exc # NoException
             THEN generate_random_files(amount, min_size, max_size, range, <<>>)
             ELSE \E draws \in [1..amount -> RandomDraws(range.lo, range.hi)] :
                     generate_random_files(amount, min_size, max_size, range, draws)

NextFixture ==
    \/ s3_client_factory
    \/ \E keys \in KeyTuples, verify_tls \in BOOLEAN, endpoint_port \in EndpointPorts :
       \E name_error \in DirectFixtureCall("unique_resource_name", "prefix") :
          create_s3client(keys, verify_tls, endpoint_port, name_error)
    \/ test_ends
    \/ fixture_teardown

vars == <<policyVars, anonVars, accVars, srvVars, s3Vars, pollVars, heapVars, utilVars,
         fixVars>>

Spec == Init /\ [][Next]_vars

SpecAnon == Init /\ [][NextAnon]_vars

SpecAccess == Init /\ [][NextAccess]_vars

SpecAnonServer == Init /\ [][NextAnonServer]_vars

SpecS3 == Init /\ [][NextS3]_vars

SpecS3Files == Init /\ [][NextS3Files]_vars

SpecHeap == Init /\ [][NextHeap]_vars

SpecUtil == Init /\ [][NextUtil]_vars

SpecFixture == Init /\ [][NextFixture]_vars

\* func returns and time.sleep ends: a wait that can take a step takes one
SpecPoll ==
    /\ Init
    /\ [][NextPoll]_vars
    /\ WF_vars(\E result \in PollValues, took \in CallDurations : poll_call(result, took))
    /\ WF_vars(poll_sleep)

----------------------------------------------------------------------------
(* Properties of BucketPolicyBuilder *)

StatementOps == {"add_allow_statement", "add_deny_statement"}
PropertyOps == {"add_principal", "add_not_principal", "add_action",
                "add_not_action", "add_resource", "add_not_resource"}

\* the Effect each add_*_statement method is documented to give
EffectOf(op) == IF op = "add_allow_statement" THEN "Allow" ELSE "Deny"

\* the step is a call of a builder method (as opposed to stuttering)
IsCall == nCalls' = nCalls + 1

StatementsMatchCalls ==
    /\ Len(statements) = Len(hist)
    /\ \A i \in 1..Len(statements) :
          /\ "Effect" \in DOMAIN statements[i]
          /\ statements[i]["Effect"] = PyStr(EffectOf(hist[i].op))

AppendOnly ==
    IF IsCall /\ lastCall'.op \in StatementOps
    THEN /\ Len(statements') = Len(statements) + 1
         /\ statements'[Len(statements')] = [Effect |-> PyStr(EffectOf(lastCall'.op))]
         /\ \A i \in 1..Len(statements) : statements'[i] = statements[i]
    ELSE /\ Len(statements') = Len(statements)
         /\ \A i \in 1..Len(statements) : statements'[i]["Effect"] = statements[i]["Effect"]

\* C1: the statement list holds exactly one statement per add_allow_statement /
\* add_deny_statement call, in call order, with the Effect of the method called;
\* each such call appends at the end and no builder call removes or reorders
\* statements.
C1_OneStatementPerCallInOrder == [](StatementsMatchCalls) /\ [][AppendOnly]_vars

C1_Witness ==
    /\ Len(statements) = 3
    /\ statements[1]["Effect"] = PyStr("Deny")
    /\ statements[2]["Effect"] = PyStr("Allow")
    /\ statements[3]["Effect"] = PyStr("Deny")
    /\ DOMAIN statements[1] # {"Effect"}

\* C2: add_principal .. add_not_resource change only the last statement: the
\* earlier statements, the number of statements, the version, and the Effect
\* and every other property of the last statement stay as they were.
C2_PropertyCallsTouchOnlyLastStatement ==
    [][(IsCall /\ lastCall'.op \in PropertyOps) =>
          /\ version' = version
          /\ Len(statements') = Len(statements)
          /\ \A i \in 1..(Len(statements) - 1) : statements'[i] = statements[i]
          /\ statements # <<>> =>
                LET old == statements[Len(statements)]
                    new == statements'[Len(statements)]
                    p == lastCall'.property
                IN /\ DOMAIN new = DOMAIN old \cup {p}
                   /\ \A q \in DOMAIN old \ {p} : new[q] = old[q]
                   /\ new["Effect"] = old["Effect"]]_vars

C2_Witness ==
    /\ lastCall.op \in PropertyOps
    /\ raised = "None"
    /\ Len(statements) = 2
    /\ DOMAIN statements[1] # {"Effect"}
    /\ lastCall.property \in DOMAIN statements[2]

\* C3: a property call on a builder whose policy has no statement raises
\* ValueError and leaves the policy unchanged, the statement list still empty.
C3_PropertyCallOnEmptyPolicyRaises ==
    [][(IsCall /\ lastCall'.op \in PropertyOps /\ statements = <<>>) =>
          /\ raised' = "ValueError"
          /\ statements' = <<>>
          /\ version' = version]_vars

C3_Witness ==
    /\ lastCall.op \in PropertyOps
    /\ raised = "ValueError"
    /\ statements = <<>>
    /\ nCalls >= 2

PrincipalProperties == {"Principal", "NotPrincipal"}

\* the place a property's values are kept in a statement
HasField(stmt, p) == p \in DOMAIN stmt
Field(stmt, p) == IF p \in PrincipalProperties THEN stmt[p].val["AWS"] ELSE stmt[p]

PrefixedProperties == {"Action", "NotAction", "Resource", "NotResource"}

\* the prefix the policy format asks for
PrefixFor(p) == IF p \in {"Action", "NotAction"} THEN ACTION_PREFIX ELSE RESOURCE_PREFIX

\* a value as the policy format wants it stored: prefixed unless it already is
Prefixed(p, v) ==
    IF p \in PrefixedProperties /\ ~StartsWith(v, PrefixFor(p)) THEN PrefixFor(p) \o v ELSE v

\* the values as the builder is to store them, in call order
StoredValues(p, raw) == [k \in 1..Len(raw) |-> PyStr(Prefixed(p, raw[k]))]

\* C4: for one property of one statement the first value is stored as a scalar,
\* the second turns the field into the list [first, second], and each further
\* value is appended: after k >= 2 adds the field is the list of the k values in
\* call order, duplicates included.
C4_ScalarThenListInCallOrder ==
    /\ Len(statements) = Len(hist)
    /\ \A i \in 1..Len(statements) : \A p \in Properties :
          LET raw == hist[i].vals[p]
          IN /\ Len(raw) = 0 => ~HasField(statements[i], p)
             /\ Len(raw) = 1 => /\ HasField(statements[i], p)
                                /\ Field(statements[i], p) = StoredValues(p, raw)[1]
             /\ Len(raw) >= 2 => /\ HasField(statements[i], p)
                                 /\ Field(statements[i], p) = PyList(StoredValues(p, raw))

C4_Witness ==
    \E p \in Properties :
       /\ Len(statements) = 1
       /\ Len(hist[1].vals[p]) = 3
       /\ Field(statements[1], p).type = "list"
       /\ Len(Field(statements[1], p).val) = 3
       /\ Field(statements[1], p).val[1] = Field(statements[1], p).val[3]
       /\ Field(statements[1], p).val[1] # Field(statements[1], p).val[2]

\* the items of a field, a scalar counting as one item
Items(field) == IF field.type = "list" THEN field.val ELSE <<field>>

\* s starts with the prefix and what follows does not
ExactlyOneLeading(s, prefix) ==
    /\ StartsWith(s, prefix)
    /\ ~StartsWith(SubSeq(s, Len(prefix) + 1, Len(s)), prefix)

\* a statement of the stored values against the raw values they came from
ForAllStored(P(_, _, _)) ==
    \A i \in 1..Len(statements) : \A p \in PrefixedProperties :
       \A k \in 1..Len(hist[i].vals[p]) :
          P(p, hist[i].vals[p][k], Items(statements[i][p])[k].val)

\* C5 as stated: every value is stored with exactly one leading prefix, whether
\* or not the caller's value carried it, and adding prefix+v stores what adding
\* v stores.
C5_Original ==
    ForAllStored(LAMBDA p, v, s :
       /\ ExactlyOneLeading(s, PrefixFor(p))
       /\ AssurePrefix(p, PrefixFor(p) \o v) = s)

\* C5 (amended): every stored value starts with the prefix; a value that already
\* starts with the prefix is stored as given and any other value v as prefix+v;
\* storing a stored value again changes nothing; and for a value v that does not
\* itself start with the prefix, adding prefix+v stores what adding v stores, with
\* exactly one leading prefix.
C5_PrefixAppliedUnlessPresent ==
    ForAllStored(LAMBDA p, v, s :
       /\ StartsWith(s, PrefixFor(p))
       /\ s = Prefixed(p, v)
       /\ AssurePrefix(p, s) = s
       /\ ~StartsWith(v, PrefixFor(p)) =>
             /\ AssurePrefix(p, PrefixFor(p) \o v) = s
             /\ ExactlyOneLeading(s, PrefixFor(p)))

C5_Witness ==
    /\ Len(statements) = 1
    /\ "Action" \in DOMAIN statements[1]
    /\ "Resource" \in DOMAIN statements[1]
    /\ hist[1].vals["Action"] = <<"*", "s3:*">>
    /\ statements[1]["Action"] = PyList(<<PyStr("s3:*"), PyStr("s3:*")>>)
    /\ hist[1].vals["Resource"] = <<"arn:aws:s3:::*">>
    /\ statements[1]["Resource"] = PyStr("arn:aws:s3:::*")

----------------------------------------------------------------------------
(* Properties of S3OperationAccessTester *)

\* the last check obtained a response from do_operation
GotResponse == accResponse # NoResponse

\* C6: check_client_access_to_bucket_op classifies the response by its Code
\* alone: True when the Code is the strategy's expected success code, False when
\* it is "AccessDenied" (and not the expected success code), an exception and no
\* return value for every other Code.
C6_ClassifiesByCode ==
    GotResponse =>
       LET expected == accStrategy.expected_success_code
       IN /\ accResponse = expected =>
                accRet = PyBool(TRUE) /\ accExc = NoException
          /\ (accResponse # expected /\ accResponse = PyStr("AccessDenied")) =>
                accRet = PyBool(FALSE) /\ accExc = NoException
          /\ (accResponse # expected /\ accResponse # PyStr("AccessDenied")) =>
                accRet = PyNone /\ accExc.type = "Exception"

C6_Witness ==
    /\ accCall.operation = "DeleteObject"
    /\ accResponse = PyInt(200)
    /\ accTrace[Len(accTrace)].call = "do_operation"
    /\ accRet = PyNone
    /\ accExc.type = "Exception"

----------------------------------------------------------------------------
(* Properties of AnonymousAccountManager *)

\* the last call ran a remote command
RanCommand == anonCmds # <<>>

\* the last call was given a uid and gid pair / a user name
GivenPair == anonCall.uid.type # "NoneType" /\ anonCall.gid.type # "NoneType"
GivenUser == anonCall.user.type = "str" /\ anonCall.user.val # ""

\* C7: create raises AccountCreationFailed without executing a remote command
\* when it is given neither a uid and gid pair (both not None) nor a user name;
\* in every other case exactly one 'account add --anonymous' command is executed.
C7_CreateNeedsPairOrUser ==
    anonCall.op = "create" =>
       IF ~(GivenPair \/ GivenUser)
       THEN /\ anonExc.type = "AccountCreationFailed"
            /\ anonCmds = <<>>
            /\ anonExec = NoExec
       ELSE /\ Len(anonCmds) = 1
            /\ Contains(anonCmds[1], " account add --anonymous ")
            /\ anonExec \in ExecResults

C7_Witness ==
    /\ anonCall = [op |-> "create", uid |-> PyInt(1234), gid |-> PyNone, user |-> PyStr("")]
    /\ anonExc.type = "AccountCreationFailed"
    /\ anonCmds = <<>>

\* C8: create raises AccountCreationFailed with the command's stdout in the
\* message exactly when the 'account add' command exits non-zero; when it exits
\* zero create returns without raising.
C8_CreateFailsIffCommandFails ==
    anonCall.op = "create" =>
       /\ (/\ RanCommand
           /\ anonExc.type = "AccountCreationFailed"
           /\ Contains(anonExc.msg, anonExec.stdout))
          <=> (RanCommand /\ anonExec.retcode # 0)
       /\ (RanCommand /\ anonExec.retcode = 0) => anonExc = NoException

C8_Witness ==
    /\ anonCall.op = "create"
    /\ RanCommand
    /\ anonExec = [retcode |-> 1, stdout |-> OutAlreadyExists]
    /\ anonExc.type = "AccountCreationFailed"
    /\ Contains(anonExc.msg, "AccountNameAlreadyExists")

\* the outputs that name a missing account
NoSuchAccountOuts == {OutNoSuchAccount, OutNoSuchAccountText}

\* C9: delete treats a non-zero exit whose stdout contains "NoSuchAccount" as
\* success and raises nothing, so it can be repeated; any other non-zero exit
\* raises AccountDeletionFailed.
C9_DeleteToleratesMissingAccount ==
    anonCall.op = "delete" =>
       /\ (anonExec.retcode # 0 /\ anonExec.stdout \in NoSuchAccountOuts) =>
             /\ anonExc = NoException
             /\ deletesInARow >= 1
       /\ (anonExec.retcode # 0 /\ anonExec.stdout \notin NoSuchAccountOuts) =>
             /\ anonExc.type = "AccountDeletionFailed"
             /\ deletesInARow = 0

C9_Witness ==
    /\ anonCall.op = "delete"
    /\ deletesInARow >= 3
    /\ anonExec = [retcode |-> 1, stdout |-> OutNoSuchAccount]
    /\ anonExc = NoException

\* the reply object printed in each status output that has one
ReplyIn(text) ==
    CASE text = OutStatus ->
            PyDict(Key("nsfs_account_config", PyDict(Key("uid", PyInt(0)) @@ Key("gid", PyInt(0)))))
      [] text = OutStatusUpdated ->
            PyDict(Key("nsfs_account_config", PyDict(Key("uid", PyInt(1234)) @@ Key("gid", PyInt(5678)))))

\* C10: status returns None when the command exits non-zero with "NoSuchAccount"
\* in stdout, and when the command exits zero it returns the object at
\* response.reply of the JSON on stdout.
C10_StatusReturnsReplyOrNone ==
    anonCall.op = "status" =>
       /\ (anonExec.retcode # 0 /\ anonExec.stdout \in NoSuchAccountOuts) =>
             /\ anonRet = PyNone
             /\ anonExc = NoException
       /\ (anonExec.retcode = 0 /\ anonExec.stdout \in {OutStatus, OutStatusUpdated}) =>
             /\ anonRet = ReplyIn(anonExec.stdout)
             /\ anonExc = NoException

C10_Witness ==
    /\ anonCall.op = "status"
    /\ anonExec = [retcode |-> 0, stdout |-> OutStatusUpdated]
    /\ anonExc = NoException
    /\ anonRet.type = "dict"
    /\ anonRet.val["nsfs_account_config"].val["uid"] = PyInt(1234)
    /\ anonRet.val["nsfs_account_config"].val["gid"] = PyInt(5678)

----------------------------------------------------------------------------
(* C11 *)

\* the status command failed, and not because the account is missing
StatusFailedOtherwise ==
    /\ anonCall.op = "status"
    /\ anonExec.retcode # 0
    /\ ~Contains(anonExec.stdout, "NoSuchAccount")

\* C11: when the status command exits non-zero for a reason other than
\* "NoSuchAccount", status raises AccountStatusFailed: it returns no value and
\* raises no parsing error (JSONDecodeError, KeyError).
C11_StatusFailureRaisesAccountStatusFailed ==
    StatusFailedOtherwise =>
        /\ anonExc.type = "AccountStatusFailed"
        /\ anonRet = PyNone

----------------------------------------------------------------------------
(* C12 *)

\* the uid and gid in the nsfs_account_config of a status reply
ReportedIds(reply) ==
    IF reply.type = "dict" /\ "nsfs_account_config" \in DOMAIN reply.val
    THEN Account(reply.val["nsfs_account_config"].val["uid"].val,
                 reply.val["nsfs_account_config"].val["gid"].val)
    ELSE NoAccount

\* C12: over any sequence of create, update and delete, status reports the uid
\* and gid given to the most recent successful create or update, and returns
\* None once delete has run and until the next create.
C12_StatusReportsLastGivenIds ==
    anonCall.op = "status" =>
        /\ srvGiven = NoAccount => anonRet = PyNone /\ anonExc = NoException
        /\ srvGiven.type = "Account" => ReportedIds(anonRet) = srvGiven

----------------------------------------------------------------------------
(* C13 *)

\* create is called while the server holds an anonymous account
CreateFoundAccount ==
    /\ srvAccount # NoAccount
    /\ anonCall'.op = "create"

----------------------------------------------------------------------------
(* C14 *)

\* the values a command line assigns to the environment variable name, in order
Assigned(command, name) ==
    LET words == Words(CliScript(command))
        assignments == SelectSeq(words, LAMBDA w : StartsWith(w, name \o "="))
    IN [i \in 1..Len(assignments) |->
           SubSeq(assignments[i], Len(name) + 2, Len(assignments[i]))]

\* the AWS CLI commands among the commands the last call ran (a write also runs dd)
AwsCliCommands == SelectSeq(s3Cmds, LAMBDA command : StartsWith(command, "bash -c '"))

\* a credential as a command line carries it
CredentialText(key) == IF key = PyNone THEN "None" ELSE key.val

\* C14: the client's access_key and secret_key are read-only: after any
\* sequence of operations they equal the values given to the constructor, and
\* every AWS CLI command the client crafts carries exactly those credentials.
C14_CredentialsReadOnly ==
    s3Self # NoClient =>
        /\ access_key(s3Self) = s3Ctor.val._access_key
        /\ secret_key(s3Self) = s3Ctor.val._secret_key
        /\ \A i \in 1..Len(AwsCliCommands) :
              /\ Assigned(AwsCliCommands[i], "AWS_ACCESS_KEY_ID")
                    = <<CredentialText(s3Ctor.val._access_key)>>
              /\ Assigned(AwsCliCommands[i], "AWS_SECRET_ACCESS_KEY")
                    = <<CredentialText(s3Ctor.val._secret_key)>>

\* a client with distinct credentials crafted a command after a bucket was made
C14_Witness ==
    /\ s3Self # NoClient
    /\ s3Ctor.val._access_key = PyStr("a1b2")
    /\ s3Ctor.val._secret_key = PyStr("c3d4")
    /\ s3Call.op = "write_random_objs_to_bucket"
    /\ AwsCliCommands # <<>>
    /\ s3Live # {}

----------------------------------------------------------------------------
(* C15 *)

\* the step is another client's: an object appears in a bucket and the client's
\* call, its commands and its position stay as they are
OtherClientActs ==
    /\ s3Call' = s3Call
    /\ s3Cmds' = s3Cmds
    /\ s3Pc' = s3Pc
    /\ \E b \in DOMAIN s3Buckets, k \in OtherKeys :
          /\ k \notin s3Buckets[b]
          /\ s3Buckets' = [s3Buckets EXCEPT ![b] = @ \cup {k}]

\* the step is the client's, and begins the call of a method
Calls(op) == ~OtherClientActs /\ s3Pc = Idle /\ s3Call'.op = op

\* the names the last call returned
ReturnedNames == IF s3Ret.type = "list" THEN Range(s3Ret.val) ELSE {}

\* C15: for any sequence of create_bucket and delete_bucket calls, list_buckets
\* returns every bucket that was created and not deleted since, and no bucket
\* that was deleted and not created again.
C15_ListBucketsFollowsCreateAndDelete ==
    s3Call.op = "list_buckets" =>
        /\ s3Ret.type = "list"
        /\ \A b \in s3Live : b \in ReturnedNames
        /\ \A b \in s3Deleted : b \notin ReturnedNames

\* a listing made while one created bucket is left and another was deleted
C15_Witness ==
    /\ s3Call.op = "list_buckets"
    /\ s3Live # {}
    /\ s3Deleted # {}

----------------------------------------------------------------------------
(* C16 *)

\* delete_bucket is called with a name the service has no bucket for
DeletesMissingBucket ==
    /\ Calls("delete_bucket")
    /\ s3Call'.bucket_name \notin DOMAIN s3Buckets

\* C16: delete_bucket on a name that does not exist raises the no-such-bucket
\* exception of noobaa_sa.exceptions, and the set of buckets is unchanged.
C16_DeleteMissingBucketRaisesNoSuchBucket ==
    [][DeletesMissingBucket =>
          /\ s3Exc'.type = "NoSuchBucketException"
          /\ DOMAIN s3Buckets' = DOMAIN s3Buckets]_vars

----------------------------------------------------------------------------
(* C17 *)

\* delete_bucket is called on a bucket that holds objects
DeletesNonEmptyBucket ==
    /\ Calls("delete_bucket")
    /\ s3Call'.bucket_name \in DOMAIN s3Buckets
    /\ s3Buckets[s3Call'.bucket_name] # {}

\* the step is the second request of delete_bucket with the flag, on the
\* bucket as the first request left it: no other client has put an object since
DeletesEmptiedBucket ==
    /\ s3Pc.at = "delete"
    /\ s3Pc' = Idle
    /\ s3Call.bucket_name \in DOMAIN s3Buckets
    /\ s3Buckets[s3Call.bucket_name] = {}

\* the bucket-not-empty error, under either of its names
BucketNotEmptyError(exc) ==
    \/ exc.type = "BucketNotEmptyException"
    \/ exc.type = "ClientError" /\ exc.msg = "BucketNotEmpty"

\* C17: a bucket that holds objects is deleted only with empty_before_deletion:
\* without the flag the call fails with the bucket-not-empty error and the
\* bucket keeps its objects; with the flag the objects are deleted, then the
\* bucket, which is gone afterwards.
C17_NonEmptyBucketNeedsFlag ==
    [][/\ DeletesNonEmptyBucket =>
            IF s3Call'.flag
            THEN /\ s3Exc' = NoException
                 /\ s3Buckets'[s3Call'.bucket_name] = {}
                 /\ s3Pc'.at = "delete"
            ELSE /\ BucketNotEmptyError(s3Exc')
                 /\ s3Buckets' = s3Buckets
       /\ DeletesEmptiedBucket =>
            /\ s3Exc' = NoException
            /\ s3Call'.bucket_name \notin DOMAIN s3Buckets']_vars

----------------------------------------------------------------------------
(* C18 *)

\* write_random_objs_to_bucket, called with the default prefix, uploads to a
\* bucket that exists and holds no object
WritesToEmptyBucket ==
    /\ s3Pc.at = "write"
    /\ s3Pc' = Idle
    /\ s3Call'.prefix = ""
    /\ s3Call'.bucket_name \in DOMAIN s3Buckets
    /\ s3Buckets[s3Call'.bucket_name] = {}

\* list_objects is called on a bucket that exists and holds no object
ListsEmptyBucket ==
    /\ Calls("list_objects")
    /\ s3Call'.bucket_name \in DOMAIN s3Buckets
    /\ s3Buckets[s3Call'.bucket_name] = {}

\* obj_0 .. obj_{n-1}
ExpectedNames(n) == [i \in 1..n |-> "obj_" \o NatToStr(i - 1)]

\* C18: writing N random objects to an empty bucket returns the N names
\* obj_0 .. obj_{N-1}, and list_objects of the bucket then returns exactly those
\* N keys; list_objects of a bucket without objects returns the empty list.
C18_WrittenObjectsAreListed ==
    [][/\ WritesToEmptyBucket =>
            /\ s3Exc' = NoException
            /\ Len(s3Cmds') = s3Call'.amount + 1
            /\ s3Ret' = PyList(ExpectedNames(s3Call'.amount))
            /\ ListObjects(s3Call'.bucket_name, s3Buckets') = s3Ret'
       /\ ListsEmptyBucket => s3Ret' = PyList(<<>>)]_vars

----------------------------------------------------------------------------
(* C19 *)

\* s3://<bucket_name>/<prefix>/, s3://<bucket_name> without a prefix
ExpectedDestination(bucket_name, prefix) ==
    IF prefix = "" THEN "s3://" \o bucket_name
    ELSE "s3://" \o bucket_name \o "/" \o prefix \o (IF EndsWith(prefix, "/") THEN "" ELSE "/")

\* the last argument of a command line
LastWord(command) == LET words == Words(CliScript(command)) IN words[Len(words)]

\* C19: write_random_objs_to_bucket syncs to s3://<bucket_name>/<prefix>/ when
\* given a prefix (with or without a trailing slash), and to s3://<bucket_name>
\* when the prefix is empty.
C19_SyncsIntoBucketUnderPrefix ==
    (s3Call.op = "write_random_objs_to_bucket" /\ s3Pc = Idle) =>
        LastWord(s3Cmds[Len(s3Cmds)]) = ExpectedDestination(s3Call.bucket_name, s3Call.prefix)

----------------------------------------------------------------------------
(* C20 *)

\* the wait has ended, with success or with failure
PollEnded == pollPc \in {"True", "False"}

\* the most calls a wait can make: one per sleep interval that starts within the
\* timeout, and the call that finds the timeout exceeded
MostCalls == (pollArgs.timeout \div pollArgs.sleep) + 2

\* C20: wait_for_func_value always terminates: it calls func again and again
\* with the sleep interval in between, ends with success at the first call that
\* returns the value waited for, and ends with failure once the timeout is
\* exceeded; it never polls forever and never succeeds without having seen
\* the value.
C20_PollingTerminates ==
    /\ [](pollPc = "True" => pollLast = pollArgs.value)
    /\ [](pollPc = "False" => pollLast # pollArgs.value /\ pollElapsed > pollArgs.timeout)
    /\ [](pollPc # "idle" => pollCalls <= MostCalls)
    /\ [](pollPc = "call" => <>PollEnded)

\* a wait failed on its timeout after calling func several times
C20_Witness ==
    /\ pollPc = "False"
    /\ pollCalls >= 3
    /\ pollLast # pollArgs.value

----------------------------------------------------------------------------
(* C23 *)

\* the factory returned a strategy to the last check
StrategySelected == accStrategy # NoStrategy

\* the calls a check makes when its steps run as described
OrderedSteps(call) ==
    << [call |-> "create_strategy", arg |-> call.operation, bucket |-> ""],
       [call |-> "setup", arg |-> call.setup_kwargs, bucket |-> ""],
       [call |-> "do_operation", arg |-> call.s3_client, bucket |-> call.bucket] >>

\* C23: a check whose operation has a strategy selects the strategy for the
\* operation name, runs its setup with the caller's setup_kwargs, and then calls
\* do_operation exactly once, with the caller's s3_client and bucket; the
\* outcome is the classification of the response that call returned.
C23_StepsRunInOrder ==
    StrategySelected =>
        /\ accTrace = OrderedSteps(accCall)
        /\ GotResponse

----------------------------------------------------------------------------
(* C24 *)

\* the last check called the strategy's setup
RanSetup == \E i \in 1..Len(accTrace) : accTrace[i].call = "setup"

\* position of the first call of that name in the trace, 0 if there is none
FirstCall(trace, name) ==
    IF \E i \in 1..Len(trace) : trace[i].call = name
    THEN CHOOSE i \in 1..Len(trace) :
            /\ trace[i].call = name
            /\ \A j \in 1..(i - 1) : trace[j].call # name
    ELSE 0

\* C24: a check that called the strategy's setup also calls its cleanup, after
\* the operation when the operation ran, whether the check returns True,
\* returns False or raises for an unexpected response code.
C24_CleanupFollowsSetup ==
    RanSetup =>
        /\ FirstCall(accTrace, "cleanup") > FirstCall(accTrace, "setup")
        /\ FirstCall(accTrace, "cleanup") > FirstCall(accTrace, "do_operation")

----------------------------------------------------------------------------
(* C25 *)

\* the words of the script a crafted command hands to bash
ScriptWords(command) == Words(CliScript(command))

\* the words of a command line that follow the word 'aws'
AfterAws(words) ==
    IF "aws" \in Range(words)
    THEN SubSeq(words, (CHOOSE i \in 1..Len(words) :
                           words[i] = "aws" /\ \A j \in 1..(i - 1) : words[j] # "aws") + 1,
                Len(words))
    ELSE <<>>

\* the TLS arguments of a command of a client with the given verify_tls
TlsArguments(words, verify_tls) ==
    IF verify_tls
    THEN /\ \E i \in 1..Len(words) : StartsWith(words[i], "AWS_CA_BUNDLE=")
         /\ \A i \in 1..Len(words) : ~Contains(words[i], "--no-verify-ssl")
    ELSE /\ "--no-verify-ssl" \in Range(words)
         /\ \A i \in 1..Len(words) : ~StartsWith(words[i], "AWS_CA_BUNDLE=")

\* the last words of the command are the words of cmd
EndsWithWords(words, cmd) ==
    LET given == Words(cmd)
    IN /\ Len(words) >= Len(given)
       /\ SubSeq(words, Len(words) - Len(given) + 1, Len(words)) = given

\* C25: the command exec_s3_cli_cmd runs is well formed in both TLS modes: it
\* assigns the client's access key and secret key, names the client's endpoint,
\* runs 'aws s3api' when api is true and 'aws s3' otherwise, carries
\* AWS_CA_BUNDLE and no --no-verify-ssl when verify_tls is true, --no-verify-ssl
\* and no AWS_CA_BUNDLE when it is false, and ends with the caller's cmd as
\* words of their own; the call either raises or returns the output.
C25_CommandWellFormed ==
    (s3Self # NoClient /\ s3Call.op = "exec_s3_cli_cmd") =>
        LET words == ScriptWords(s3Cmds[1])
        IN /\ Len(s3Cmds) = 1
           /\ ("AWS_ACCESS_KEY_ID=" \o CredentialText(s3Self.val._access_key)) \in Range(words)
           /\ ("AWS_SECRET_ACCESS_KEY=" \o CredentialText(s3Self.val._secret_key))
                 \in Range(words)
           /\ ("--endpoint=" \o s3Self.val.endpoint) \in Range(words)
           /\ AfterAws(words) # <<>>
           /\ AfterAws(words)[1] = (IF s3Call.flag THEN "s3api" ELSE "s3")
           /\ TlsArguments(words, s3Self.val.verify_tls)
           /\ EndsWithWords(words, s3Call.bucket_name)
           /\ \/ s3Exc = NoException /\ s3Ret # PyNone
              \/ s3Exc.type = "Exception" /\ s3Ret = PyNone

----------------------------------------------------------------------------
(* C26 *)

\* the CA bundle a command of the client runs with: the one its own command
\* line assigns, else the one of the process environment it inherits
EffectiveCaBundle(command, env) ==
    IF Assigned(command, "AWS_CA_BUNDLE") # <<>>
    THEN PyStr(Assigned(command, "AWS_CA_BUNDLE")[1])
    ELSE env

\* C26: the TLS settings a client's calls run with depend only on the client's
\* own verify_tls, whatever clients were constructed before it: a client
\* constructed with verify_tls=False finds no AWS_CA_BUNDLE in the process
\* environment and runs its commands without a CA bundle, a client constructed
\* with verify_tls=True runs them with the certificate path.
C26_ClientsDoNotInterfere ==
    s3Self # NoClient =>
        IF s3Self.val.verify_tls
        THEN /\ s3Env = PyStr(static_tls_crt_path)
             /\ \A i \in 1..Len(AwsCliCommands) :
                   EffectiveCaBundle(AwsCliCommands[i], s3Env) = PyStr(static_tls_crt_path)
        ELSE /\ s3Env = PyNone
             /\ \A i \in 1..Len(AwsCliCommands) :
                   EffectiveCaBundle(AwsCliCommands[i], s3Env) = PyNone

----------------------------------------------------------------------------
(* C27 *)

\* the command create and update are to send for the arguments of the call:
\* the pair when both uid and gid are given (0 included), else the user when
\* one is given, else none
ChosenCommands(call) ==
    LET head == "sudo " \o NB_CLI_PATH \o " account "
                \o (IF call.op = "create" THEN "add" ELSE "update") \o " --anonymous "
    IN IF call.uid.type # "NoneType" /\ call.gid.type # "NoneType"
       THEN <<head \o "--uid " \o Format(call.uid) \o " --gid " \o Format(call.gid)>>
       ELSE IF call.user.type = "str" /\ call.user.val # ""
            THEN <<head \o "--user " \o call.user.val>>
            ELSE <<>>

\* C27: create and update choose their command arguments alike: for every
\* (uid, gid, user) each passes --uid and --gid when both are given, the value 0
\* included, passes --user otherwise when a user is given, and sends no remote
\* command when neither is given.
C27_UpdateChoosesArgumentsAsCreate ==
    anonCall.op \in {"create", "update"} => anonCmds = ChosenCommands(anonCall)

\* the same for create alone
CreateChoosesArguments ==
    anonCall.op = "create" => anonCmds = ChosenCommands(anonCall)

----------------------------------------------------------------------------
(* C28 *)

\* what add_principal / add_not_principal calls with these values, in call
\* order, leave under "AWS": the one value, or the list of the values
AwsEntry(raw) ==
    IF Len(raw) = 1 THEN PyStr(raw[1])
    ELSE PyList([k \in 1..Len(raw) |-> PyStr(raw[k])])

\* C28: Principal and NotPrincipal are never stored directly on the statement:
\* a statement has the key only after add_principal / add_not_principal, its
\* value is then an object whose single key "AWS" holds the values given,
\* unprefixed, one value as a scalar and two or more as a list in call order,
\* and Principal and NotPrincipal of one statement each hold their own values.
C28_PrincipalsUnderAws ==
    \A k \in 1..Len(statements) : \A p \in {"Principal", "NotPrincipal"} :
        IF hist[k].vals[p] = <<>>
        THEN p \notin DOMAIN statements[k]
        ELSE /\ p \in DOMAIN statements[k]
             /\ statements[k][p].type = "dict"
             /\ DOMAIN statements[k][p].val = {"AWS"}
             /\ statements[k][p].val["AWS"] = AwsEntry(hist[k].vals[p])

\* one statement holds a list of principals and one other not-principal, the
\* principal "s3:*" among them
C28_Witness ==
    \E k \in 1..Len(statements) :
        /\ Len(hist[k].vals["Principal"]) = 2
        /\ Len(hist[k].vals["NotPrincipal"]) = 1
        /\ hist[k].vals["Principal"][1] = "s3:*"
        /\ hist[k].vals["Principal"][2] # hist[k].vals["NotPrincipal"][1]
        /\ statements[k]["Principal"].val["AWS"].type = "list"
        /\ statements[k]["NotPrincipal"].val["AWS"].type = "str"

----------------------------------------------------------------------------
(* C29 *)

\* the step is a call on a policy or a builder
IsHeapCall == heapCall'.n = heapCall.n + 1

\* the step is an add_allow_statement / add_deny_statement call of builder b
AddsStatement(b) ==
    /\ IsHeapCall
    /\ heapCall'.op \in {"add_allow_statement", "add_deny_statement"}
    /\ heapCall'.builder = b

\* the policy object gains the statement of the call as its last one
GainsStatement(policy) ==
    heap'[policy].statements
        = Append(heap[policy].statements, [Effect |-> PyStr(EffectOf(heapCall'.op))])

\* a statement added through a builder shows in every policy build() returned
\* from that builder before
VisibleInReturned ==
    \A i \in 1..Len(built) : AddsStatement(built[i].builder) => GainsStatement(built[i].ref)

\* a statement added through a builder made over an existing policy is
\* appended to that policy
InPlace ==
    \A b \in 1..Len(bGiven) : (bGiven[b] # 0 /\ AddsStatement(b)) => GainsStatement(bGiven[b])

\* a builder made without a policy gets a new policy object, with the default
\* version and no statements, that no other builder holds
FreshWhenNoneGiven ==
    (IsHeapCall /\ heapCall'.op = "BucketPolicyBuilder" /\ heapCall'.policy = 0) =>
        LET b == heapCall'.builder
        IN /\ bPolicy'[b] \notin 1..Len(heap)
           /\ heap'[bPolicy'[b]] = [version |-> "2012-10-17", statements |-> <<>>]
           /\ \A other \in 1..Len(bPolicy') : other # b => bPolicy'[other] # bPolicy'[b]

\* build() returned the builder's own policy object
ReturnedOwnPolicy == \A i \in 1..Len(built) : built[i].ref = bPolicy[built[i].builder]

\* two builders made without a policy never hold the same policy
DefaultsNotShared ==
    \A b1, b2 \in 1..Len(bGiven) :
        (b1 # b2 /\ bGiven[b1] = 0 /\ bGiven[b2] = 0) => bPolicy[b1] # bPolicy[b2]

\* C29: build() returns the builder's own policy object, not a copy: what the
\* builder adds after build() shows in the policy returned earlier; a builder
\* made over an existing policy appends to that policy in place; a builder made
\* without a policy starts from a new policy with the default version and no
\* statements, shared with no other builder.
C29_BuildReturnsOwnPolicy ==
    /\ [](ReturnedOwnPolicy /\ DefaultsNotShared)
    /\ [][VisibleInReturned /\ InPlace /\ FreshWhenNoneGiven]_vars

\* a builder made without a policy added a statement after build(), and another
\* builder was made over the policy build() returned
C29_Witness ==
    /\ Len(built) >= 1
    /\ bGiven[built[1].builder] = 0
    /\ heapCall.op = "add_allow_statement"
    /\ heapCall.builder = built[1].builder
    /\ heap[built[1].ref].statements # <<>>
    /\ \E b \in 1..Len(bGiven) : bGiven[b] = built[1].ref

----------------------------------------------------------------------------
(* C22 and C30: sizes in dd notation *)

\* a size is a non-negative integer followed by one of the units K, M, G
UnitOf(size) == SubSeq(size, Len(size), Len(size))
NumberOf(size) == StrToNat(SubSeq(size, 1, Len(size) - 1))
HasNumber(size) == Len(size) > 1 /\ IsDigits(SubSeq(size, 1, Len(size) - 1))
WellFormedSize(size) == HasNumber(size) /\ UnitOf(size) \in {"K", "M", "G"}

\* the number of bytes dd takes a size to be
BytesOf(size) ==
    NumberOf(size) * (CASE UnitOf(size) = "K" -> 1024
                        [] UnitOf(size) = "M" -> 1024 * 1024
                        [] UnitOf(size) = "G" -> 1024 * 1024 * 1024)

\* the number of kilobytes of a size
KilobytesOf(size) ==
    NumberOf(size) * (CASE UnitOf(size) = "K" -> 1
                        [] UnitOf(size) = "M" -> 1024
                        [] UnitOf(size) = "G" -> 1024 * 1024)

\* the arguments generate_random_files is to refuse
RefusedSizes(min_size, max_size) ==
    \/ ~WellFormedSize(min_size)
    \/ ~WellFormedSize(max_size)
    \/ BytesOf(min_size) > BytesOf(max_size)
    \/ BytesOf(min_size) = 0
    \/ BytesOf(max_size) = 0

\* C22: generate_random_files, given sizes that are not empty strings, raises
\* ValueError and creates no file when a size is not an integer followed by K, M
\* or G, when min_size is greater than max_size or when either size is zero;
\* otherwise it creates exactly amount files obj_0 .. obj_{amount-1}, returns
\* those names in order, and the size of every file lies between min_size and
\* max_size inclusive.
C22_GeneratesFilesWithinSizes ==
    (utilCall.op = "generate_random_files" /\ utilCall.min_size # "" /\ utilCall.max_size # "")
    => IF RefusedSizes(utilCall.min_size, utilCall.max_size)
       THEN /\ utilExc.type = "ValueError"
            /\ utilRet = PyNone
            /\ utilFiles = <<>>
       ELSE /\ utilExc = NoException
            /\ utilRet = PyList([i \in 1..utilCall.amount |-> PyStr("obj_" \o NatToStr(i - 1))])
            /\ DOMAIN utilFiles = {"obj_" \o NatToStr(i - 1) : i \in 1..utilCall.amount}
            /\ \A f \in DOMAIN utilFiles :
                  /\ BytesOf(utilCall.min_size) <= utilFiles[f]
                  /\ utilFiles[f] <= BytesOf(utilCall.max_size)

\* the same, with the sizes of the files read as the code draws them: a number
\* between the two sizes in kilobytes, used as a number of bytes
FilesWithinKilobyteCounts ==
    (utilCall.op = "generate_random_files" /\ utilCall.min_size # "" /\ utilCall.max_size # "")
    => IF RefusedSizes(utilCall.min_size, utilCall.max_size)
       THEN /\ utilExc.type = "ValueError"
            /\ utilRet = PyNone
            /\ utilFiles = <<>>
       ELSE /\ utilExc = NoException
            /\ utilRet = PyList([i \in 1..utilCall.amount |-> PyStr("obj_" \o NatToStr(i - 1))])
            /\ DOMAIN utilFiles = {"obj_" \o NatToStr(i - 1) : i \in 1..utilCall.amount}
            /\ \A f \in DOMAIN utilFiles :
                  /\ KilobytesOf(utilCall.min_size) <= utilFiles[f]
                  /\ utilFiles[f] <= KilobytesOf(utilCall.max_size)

\* on the sizes the functions are called with, the order of two well-formed
\* sizes in kilobytes, as parse_dd_size_to_kb returns them, is their order in bytes
ParseKeepsOrder ==
    \A a, b \in {s \in Sizes : WellFormedSize(s)} :
        BytesOf(a) <= BytesOf(b) <=> ParseDdSizeToKb(a).ret.val <= ParseDdSizeToKb(b).ret.val

\* C30: parse_dd_size_to_kb returns n for "nK", n*1024 for "nM" and n*1024*1024
\* for "nG", n a non-negative integer, and raises ValueError for n followed by
\* any other unit; the result keeps the order of the sizes, so that
\* generate_random_files refuses min_size and max_size as out of order exactly
\* when min_size is the greater in dd notation.
C30_ParsesSizesToKilobytes ==
    /\ (utilCall.op = "parse_dd_size_to_kb" /\ HasNumber(utilCall.min_size)) =>
          IF UnitOf(utilCall.min_size) \in {"K", "M", "G"}
          THEN /\ utilExc = NoException
               /\ utilRet = PyInt(KilobytesOf(utilCall.min_size))
          ELSE /\ utilExc.type = "ValueError"
               /\ utilRet = PyNone
    /\ ParseKeepsOrder
    /\ (/\ utilCall.op = "generate_random_files"
        /\ WellFormedSize(utilCall.min_size)
        /\ WellFormedSize(utilCall.max_size)) =>
          (utilExc.msg = "min_size cannot be greater than max_size"
              <=> BytesOf(utilCall.min_size) > BytesOf(utilCall.max_size))

\* a size in gigabytes was parsed
C30_Witness ==
    /\ utilCall.op = "parse_dd_size_to_kb"
    /\ utilCall.min_size = "1G"
    /\ utilRet = PyInt(1048576)
    /\ utilExc = NoException

----------------------------------------------------------------------------
(* C21 *)

\* the step is a create_s3client call without credentials
CalledWithoutCredentials ==
    /\ fixCall'.n = fixCall.n + 1
    /\ fixCall'.access_and_secret_keys_tuple = PyNone

\* such a call creates one account on the server
CreatesOneAccount ==
    CalledWithoutCredentials =>
        /\ Cardinality(fixCreated') = Cardinality(fixCreated) + 1
        /\ fixCreated' \subseteq fixAccounts'

\* after teardown the server holds no account the fixture created
NoneLeftAfterTeardown == fixPc = "done" => fixCreated \cap fixAccounts = {}

\* C21: every s3_client_factory call without credentials creates one account
\* on the server, and after the teardown of the fixtures the server holds none
\* of the accounts the fixture created during the test.
C21_FixtureAccountsDeleted == [][CreatesOneAccount]_vars /\ []NoneLeftAfterTeardown

====
